---- MODULE Spec2Model ----
(***************************************************************************)
(* CareMind hybrid retrieval (rag/retriever.py): the two search providers  *)
(* and the two fusion strategies.                                          *)
(*                                                                         *)
(* Numbers.  Python floats are modelled as exact fixed-point numbers:      *)
(*   - a score or a distance v is the integer One * v, One = 60, the       *)
(*     smallest unit in which 0.3, 0.4, 0.95 and the sixths of the drug    *)
(*     heuristic are all whole (0.95 is 57, written Pct(95));              *)
(*   - alpha is a percentage (0.6 is 60);                                  *)
(*   - a linear fused_score is in units of 1/6000 (0.57 is 3420);          *)
(*   - an RRF fused_score is a numerator over the common denominator       *)
(*     RrfDen(k), so that 1 / (k + rank) is the integer RrfTerm(k, rank).  *)
(* Rounding of IEEE doubles is outside the model.                          *)
(*                                                                         *)
(* Text.  A Python str is a sequence of one-character strings; None (a SQL *)
(* NULL or a missing key) is the value None below.                         *)
(***************************************************************************)
EXTENDS Integers, Sequences, FiniteSets

VARIABLES
    guideline_hits,   \* list of hits: the first argument of a fusion, the result of search_guidelines
    drug_hits,        \* list of hits: the second argument of a fusion, the result of search_drugs
    called,           \* the entry point that was called, "none" before the call
    pc,               \* "call" | "returned" | "raised"
    alpha,            \* linear_fusion's alpha, in percent
    k,                \* rrf_fusion's k
    topn,             \* the fusion's topn
    fused,            \* the list the fusion returned
    collection,       \* Chroma: the distance of every stored chunk to the query, nearest first
    n_results,        \* search_guidelines' k, passed to col.query as n_results
    res,              \* what col.query returned: [ids, distances]
    query,            \* search_drugs' query string
    has_fts,          \* whether the database has the drugs_fts table
    drugs,            \* SQLite: the rows of the drugs table, in rowid order
    limit,            \* search_drugs' k, the LIMIT of its SELECT
    rows,             \* what cur.fetchall() returned
    chroma_ok,        \* whether the Chroma collection can be opened and queried
    sqlite_ok,        \* whether the SQLite file exists
    method,           \* hybrid_search's method
    result,           \* <<d>> once hybrid_search returned the dict d, else <<>>
    calls,            \* the functions hybrid_search called, in order
    DEMO,             \* pipeline.DEMO, from CAREMIND_DEMO
    MAX_K,            \* pipeline.MAX_K, from CAREMIND_MAX_K
    ui_lang,          \* the language selected in the app's sidebar
    lang,             \* answer's lang
    question,         \* answer's question / the app's question field
    drug_name,        \* answer's drug_name
    k_arg,            \* answer's k, as the caller gave it
    answer_result,    \* <<d>> once answer returned the dict d, else <<>>
    retries,          \* llm_chat's retries
    server,           \* Ollama: for each attempt, its reply to /api/chat and to /api/generate
    posts,            \* the requests llm_chat posted, in order
    llm_result,       \* <<v>> once llm_chat returned v, else <<>>
    start_bs,         \* encode_with_backoff's start_bs
    cpu_fallback,     \* encode_with_backoff's cpu_fallback
    bs,               \* encode_with_backoff's bs
    current_device,   \* encode_with_backoff's current_device: "cuda" | "cpu"
    attempts,         \* the calls of model.encode so far: batch size, device, how each ended
    drugs_table,      \* load_drugs: the rows of the drugs table, in id order
    row,              \* upsert_row's row, <<>> before the first call
    n_upserts,        \* the calls of upsert_row so far
    BUFFER,           \* build_vectors.main's BUFFER
    batch,            \* the batch of the last call of flush
    total,            \* build_vectors.main's total
    current_bs,       \* build_vectors.main's current_bs
    has_upsert,       \* hasattr(collection, "upsert")
    store,            \* the Chroma collection build_vectors writes: its items, by id
    writes,           \* the write calls of the last flush: op, ids, embeddings, documents, metadatas
    unread,           \* the lines of the JSONL file not read yet
    where,            \* search_guidelines' where
    query_calls       \* the calls of col.query by search_guidelines: their where, how each ended

fusionVars == <<alpha, k, topn, fused>>
guidelineVars == <<collection, n_results, res>>
drugVars == <<query, has_fts, drugs, limit, rows>>
hybridVars == <<chroma_ok, sqlite_ok, method, result, calls>>
pipelineVars == <<DEMO, MAX_K, ui_lang, lang, question, drug_name, k_arg, answer_result>>
llmVars == <<retries, server, posts, llm_result>>
encodeVars == <<start_bs, cpu_fallback, bs, current_device, attempts>>
upsertVars == <<drugs_table, row, n_upserts>>
flushVars == <<BUFFER, batch, total, current_bs, has_upsert, store, writes, unread>>
ingestVars == <<encodeVars, upsertVars, flushVars>>
whereVars == <<where, query_calls>>
vars == <<guideline_hits, drug_hits, called, pc, fusionVars, guidelineVars, drugVars,
          hybridVars, pipelineVars, llmVars, ingestVars, whereVars>>

----------------------------------------------------------------------------
(* Bounds and input sets *)

\* The two input lists of a fusion hold at most MaxHits hits together.
MaxHits == 4

Min(a, b) == IF a <= b THEN a ELSE b
Max(a, b) == IF a >= b THEN a ELSE b

\* The float 1.0 of a score or a distance.
One == 60
Pct(p) == (p * One) \div 100

Sources == {"guideline", "drug"}
Ids == {1, 2}
GuidelineScores == {Pct(40), Pct(95)}
DrugScores == {Pct(40), Pct(100)}

\* Hits a caller can pass as guideline_hits / drug_hits.  The drug list may
\* also carry the "guideline" identity 1, so that one (source, id) can occur
\* in both lists.
Hit(s, i, sc) == [source |-> s, id |-> i, score |-> sc]
GuidelineInputs == {Hit("guideline", i, sc) : i \in Ids, sc \in GuidelineScores}
DrugInputs ==
    {Hit("drug", i, sc) : i \in Ids, sc \in DrugScores}
        \cup {Hit("guideline", 1, sc) : sc \in DrugScores}

Alphas == {0, 60, 150}
Topns == {-1, 0, 1, 3}
RrfKs == {-1, 1, 60}

\* Defaults of the signatures.
DefaultAlpha == 60
DefaultRrfK == 60
DefaultTopn == 8
DefaultK == 6
DefaultMaxK == 8
DefaultAnswerK == 4
DefaultRetries == 2
DefaultBatchSize == 16

\* Python's None: a NULL column.  No str is this value, a str being a
\* sequence of one-character strings.
None == <<"None">>

----------------------------------------------------------------------------
(* Python list helpers *)

\* lst[:n] of a Python list: a negative n counts from the end.
Slice(lst, n) ==
    IF n >= 0 THEN SubSeq(lst, 1, Min(n, Len(lst)))
    ELSE SubSeq(lst, 1, Max(0, Len(lst) + n))

\* One step of a stable descending sort by fused_score: x goes after every
\* element whose key is >= its own.
InsertByFused(sorted, x) ==
    LET p == Cardinality({i \in 1..Len(sorted) : sorted[i].fused_score >= x.fused_score})
    IN  SubSeq(sorted, 1, p) \o <<x>> \o SubSeq(sorted, p + 1, Len(sorted))

RECURSIVE SortByFusedDesc(_)
\* list.sort(key=lambda x: x["fused_score"], reverse=True): stable.
SortByFusedDesc(lst) ==
    IF lst = <<>> THEN <<>>
    ELSE InsertByFused(SortByFusedDesc(SubSeq(lst, 1, Len(lst) - 1)), lst[Len(lst)])

InsertByScore(sorted, x) ==
    LET p == Cardinality({i \in 1..Len(sorted) : sorted[i].score >= x.score})
    IN  SubSeq(sorted, 1, p) \o <<x>> \o SubSeq(sorted, p + 1, Len(sorted))

RECURSIVE SortByScoreDesc(_)
\* sorted(hits, key=lambda x: x["score"], reverse=True): stable.
SortByScoreDesc(lst) ==
    IF lst = <<>> THEN <<>>
    ELSE InsertByScore(SortByScoreDesc(SubSeq(lst, 1, Len(lst) - 1)), lst[Len(lst)])

\* {**h, "fused_score": f}
WithFused(h, f) ==
    [source |-> h.source, id |-> h.id, score |-> h.score, fused_score |-> f]

----------------------------------------------------------------------------
(* linear_fusion *)

GuidelineWeight(a) == a
DrugWeightSwapped(a) == a
\* (1.0 - alpha), alpha in percent
DrugWeight(a) == 100 - a

linear_fusion(G, D, a, n) ==
    LET fusedG == [i \in 1..Len(G) |-> WithFused(G[i], GuidelineWeight(a) * G[i].score)]
        fusedD == [i \in 1..Len(D) |-> WithFused(D[i], DrugWeight(a) * D[i].score)]
    IN  Slice(SortByFusedDesc(fusedG \o fusedD), n)

----------------------------------------------------------------------------
(* rrf_fusion *)

RECURSIVE Product(_, _)
Product(kk, r) == IF r = 0 THEN 1 ELSE (kk + r) * Product(kk, r - 1)

\* Common denominator of 1/(k+1) .. 1/(k+MaxHits), for k >= 0.
RrfDen(kk) == Product(kk, MaxHits)

\* 1.0 / (k + rank), as a numerator over RrfDen(k).
RrfTerm(kk, rank) == RrfDen(kk) \div (kk + rank)

\* f"{h['source']}::{h['id']}"
Key(h) == <<h.source, h.id>>

HasKey(map, key) == \E i \in 1..Len(map) : Key(map[i]) = key

AddHitOverwrite(map, h, rank, kk) ==
    IF HasKey(map, Key(h))
    THEN [i \in 1..Len(map) |->
            IF Key(map[i]) = Key(h) THEN WithFused(h, RrfTerm(kk, rank)) ELSE map[i]]
    ELSE Append(map, WithFused(h, RrfTerm(kk, rank)))

\* The body of add_list's loop for one ranked hit: fused_map is a dict, kept
\* here as the list of its values in insertion order.
AddHit(map, h, rank, kk) ==
    LET m1 == IF HasKey(map, Key(h)) THEN map ELSE Append(map, WithFused(h, 0))
    IN  [i \in 1..Len(m1) |->
            IF Key(m1[i]) = Key(h)
            THEN [m1[i] EXCEPT !.fused_score = @ + RrfTerm(kk, rank)]
            ELSE m1[i]]

RECURSIVE AddRanked(_, _, _, _)
AddRanked(map, ranked, rank, kk) ==
    IF rank > Len(ranked) THEN map
    ELSE AddRanked(AddHit(map, ranked[rank], rank, kk), ranked, rank + 1, kk)

RankedUnsorted(hits) == hits

InsertByClampedScore(sorted, x) ==
    LET p == Cardinality({i \in 1..Len(sorted) : Min(sorted[i].score, One) >= Min(x.score, One)})
    IN  SubSeq(sorted, 1, p) \o <<x>> \o SubSeq(sorted, p + 1, Len(sorted))

RECURSIVE RankedClamped(_)
RankedClamped(hits) ==
    IF hits = <<>> THEN <<>>
    ELSE InsertByClampedScore(RankedClamped(SubSeq(hits, 1, Len(hits) - 1)), hits[Len(hits)])

\* sorted(hits, key=score, reverse=True), which enumerate(..., start=1) ranks.
Ranked(hits) == SortByScoreDesc(hits)

add_list(map, hits, kk) == AddRanked(map, Ranked(hits), 1, kk)

\* 1.0 / (k + rank) raises ZeroDivisionError when k + rank = 0.
RrfRaises(G, D, kk) ==
    \/ \E r \in 1..Len(G) : kk + r = 0
    \/ \E r \in 1..Len(D) : kk + r = 0

rrf_fusion(G, D, kk, n) ==
    Slice(SortByFusedDesc(add_list(add_list(<<>>, G, kk), D, kk)), n)

LinearAnnotatesInPlace(G, D, a) ==
    [guideline_hits |-> [i \in 1..Len(G) |-> WithFused(G[i], GuidelineWeight(a) * G[i].score)],
     drug_hits |-> [i \in 1..Len(D) |-> WithFused(D[i], DrugWeight(a) * D[i].score)]]

\* What linear_fusion leaves in its two argument lists.  It only reads
\* them: fused is a new list, {**h, "fused_score": ...} is a new dict for
\* every hit, and the sort and the slice are of fused.
linear_fusion_inputs(G, D, a) == [guideline_hits |-> G, drug_hits |-> D]

\* What rrf_fusion leaves in its two argument lists.  add_list ranks the
\* copy that sorted(hits, ...) returns, and += updates the new dicts
\* {**h, "fused_score": 0.0} of fused_map; this holds as far as the loop
\* gets when 1.0 / (k + rank) raises.
rrf_fusion_inputs(G, D, kk) == [guideline_hits |-> G, drug_hits |-> D]

----------------------------------------------------------------------------
(* The fusion entry points, called on any pair of lists *)

FusionIdle ==
    /\ alpha = DefaultAlpha
    /\ k = DefaultRrfK
    /\ topn = DefaultTopn
    /\ fused = <<>>

GuidelinesIdle ==
    /\ collection = <<>>
    /\ n_results = DefaultK
    /\ res = [ids |-> <<>>, distances |-> <<>>]

DrugsIdle ==
    /\ query = <<>>
    /\ has_fts = FALSE
    /\ drugs = <<>>
    /\ limit = DefaultK
    /\ rows = <<>>

\* hybrid_search not called, both stores available.
HybridIdle ==
    /\ chroma_ok = TRUE
    /\ sqlite_ok = TRUE
    /\ method = "linear"
    /\ result = <<>>
    /\ calls = <<>>

\* answer not called, the configuration at its defaults.
PipelineIdle ==
    /\ DEMO = TRUE
    /\ MAX_K = DefaultMaxK
    /\ ui_lang = "zh"
    /\ lang = "zh"
    /\ question = <<>>
    /\ drug_name = <<>>
    /\ k_arg = [kind |-> "int", val |-> DefaultAnswerK]
    /\ answer_result = <<>>

\* llm_chat not called.
LlmIdle ==
    /\ retries = DefaultRetries
    /\ server = <<>>
    /\ posts = <<>>
    /\ llm_result = <<>>

\* encode_with_backoff not called.
EncodeIdle ==
    /\ start_bs = DefaultBatchSize
    /\ cpu_fallback = TRUE
    /\ bs = 1
    /\ current_device = "cpu"
    /\ attempts = <<>>

\* The drugs table just created, upsert_row not called.
UpsertIdle ==
    /\ drugs_table = <<>>
    /\ row = <<>>
    /\ n_upserts = 0

\* build_vectors.main not started.
FlushIdle ==
    /\ BUFFER = <<>>
    /\ batch = <<>>
    /\ total = 0
    /\ current_bs = DefaultBatchSize
    /\ has_upsert = TRUE
    /\ store = {}
    /\ writes = <<>>
    /\ unread = 0

IngestIdle == EncodeIdle /\ UpsertIdle /\ FlushIdle

\* search_guidelines called without a where.
WhereIdle ==
    /\ where = None
    /\ query_calls = <<>>

Init ==
    /\ \E g \in 0..MaxHits : \E d \in 0..(MaxHits - g) :
        /\ guideline_hits \in [1..g -> GuidelineInputs]
        /\ drug_hits \in [1..d -> DrugInputs]
    /\ FusionIdle
    /\ GuidelinesIdle
    /\ DrugsIdle
    /\ HybridIdle
    /\ PipelineIdle
    /\ LlmIdle
    /\ IngestIdle
    /\ WhereIdle
    /\ called = "none"
    /\ pc = "call"

LinearFusion ==
    /\ pc = "call"
    /\ \E a \in Alphas, n \in Topns :
        /\ alpha' = a
        /\ topn' = n
        /\ fused' = linear_fusion(guideline_hits, drug_hits, a, n)
        /\ guideline_hits' = linear_fusion_inputs(guideline_hits, drug_hits, a).guideline_hits
        /\ drug_hits' = linear_fusion_inputs(guideline_hits, drug_hits, a).drug_hits
    /\ called' = "linear_fusion"
    /\ pc' = "returned"
    /\ UNCHANGED <<k, guidelineVars, drugVars,
                   hybridVars, pipelineVars, llmVars, ingestVars, whereVars>>

RrfFusion ==
    /\ pc = "call"
    /\ \E kk \in RrfKs, n \in Topns :
        /\ k' = kk
        /\ topn' = n
        /\ IF RrfRaises(guideline_hits, drug_hits, kk)
           THEN fused' = <<>> /\ pc' = "raised"
           ELSE fused' = rrf_fusion(guideline_hits, drug_hits, kk, n) /\ pc' = "returned"
        /\ guideline_hits' = rrf_fusion_inputs(guideline_hits, drug_hits, kk).guideline_hits
        /\ drug_hits' = rrf_fusion_inputs(guideline_hits, drug_hits, kk).drug_hits
    /\ called' = "rrf_fusion"
    /\ UNCHANGED <<alpha, guidelineVars, drugVars,
                   hybridVars, pipelineVars, llmVars, ingestVars, whereVars>>

Next == LinearFusion \/ RrfFusion

Spec == Init /\ [][Next]_vars

----------------------------------------------------------------------------
(* search_guidelines *)

\* The collection holds at most MaxChunks chunks.
MaxChunks == 3

\* Distances a vector index can report: -5.0, 0.0, 0.25, 1.0, 1.5, 2.5.
DistValues == {-5 * One, 0, Pct(25), One, Pct(150), Pct(250)}

Ascending(ds) == \A i \in 1..Len(ds) : \A j \in i..Len(ds) : ds[i] <= ds[j]

\* col.query(query_embeddings=qvec, n_results=k, include=[...]): the n
\* nearest chunks, nearest first.
ColQuery(coll, n) ==
    LET m == Min(n, Len(coll))
    IN  [ids |-> [i \in 1..m |-> i], distances |-> SubSeq(coll, 1, m)]

similarityNoUpperClamp(distance) == Max(0, One - distance)
\* max(0.0, min(1.0, 1.0 - distance))
similarity(distance) == Max(0, Min(One, One - distance))

\* The loop that builds search_guidelines' out list from the reply.
GuidelineHitsOf(reply) ==
    [i \in 1..Len(reply.ids) |->
        LET distance == IF reply.distances # <<>> THEN reply.distances[i] ELSE One
        IN  Hit("guideline", reply.ids[i], similarity(distance))]

InitGuidelines ==
    /\ collection \in UNION {[1..m -> DistValues] : m \in 0..MaxChunks}
    /\ Ascending(collection)
    /\ n_results \in 1..MaxChunks
    /\ res = [ids |-> <<>>, distances |-> <<>>]
    /\ guideline_hits = <<>>
    /\ drug_hits = <<>>
    /\ FusionIdle
    /\ DrugsIdle
    /\ HybridIdle
    /\ PipelineIdle
    /\ LlmIdle
    /\ IngestIdle
    /\ WhereIdle
    /\ called = "none"
    /\ pc = "call"

SearchGuidelines ==
    /\ pc = "call"
    /\ res' = ColQuery(collection, n_results)
    /\ guideline_hits' = GuidelineHitsOf(res')
    /\ called' = "search_guidelines"
    /\ pc' = "returned"
    /\ UNCHANGED <<drug_hits, collection, n_results, fusionVars, drugVars,
                   hybridVars, pipelineVars, llmVars, ingestVars, whereVars>>

NextGuidelines == SearchGuidelines

SpecGuidelines == InitGuidelines /\ [][NextGuidelines]_vars

----------------------------------------------------------------------------
(* search_drugs *)

\* The drugs table holds at most MaxRows rows.
MaxRows == 2

Fields == <<"name", "generic_name", "indications", "contraindications", "interactions">>

NameValues == {None, <<"a">>}
TextValues == {None, <<>>, <<"a">>}
Queries == {<<>>, <<" ">>, <<"a">>, <<"A">>, <<"a", " ", "a">>}
Limits == {1, DefaultK}

DrugRows ==
    [name : NameValues, generic_name : NameValues, indications : TextValues,
     contraindications : TextValues, interactions : TextValues]

\* needle in hay, for two str
Contains(hay, needle) ==
    \E i \in 0..(Len(hay) - Len(needle)) : SubSeq(hay, i + 1, i + Len(needle)) = needle

\* x or ""
OrEmpty(x) == IF x = None THEN <<>> ELSE x

\* bool(x) of a str or None
Truthy(x) == x # None /\ x # <<>>

RECURSIVE JoinFrom(_, _)
JoinFrom(strs, i) ==
    IF i > Len(strs) THEN <<>>
    ELSE IF i = Len(strs) THEN strs[i]
    ELSE strs[i] \o <<" ">> \o JoinFrom(strs, i + 1)

\* " ".join(strs)
Join(strs) == JoinFrom(strs, 1)

\* hay = " ".join((meta.get(f) or "") for f in fields)
Hay(meta) == Join([i \in 1..Len(Fields) |-> OrEmpty(meta[Fields[i]])])

\* hits = sum(1 for f in fields if meta.get(f) and (query in meta.get(f)))
FieldHits(meta, q) ==
    Cardinality({i \in 1..Len(Fields) :
        Truthy(meta[Fields[i]]) /\ Contains(meta[Fields[i]], q)})

\* sim = max(0.3, min(1.0, (hits + (1 if query in hay else 0)) / (len(fields) + 1)))
DrugScore(meta, q) ==
    LET hits == FieldHits(meta, q)
        inHay == IF Contains(Hay(meta), q) THEN 1 ELSE 0
    IN  Max(Pct(30), Min(One, ((hits + inHay) * One) \div (Len(Fields) + 1)))

\* The loop that builds search_drugs' out list (the same in both branches).
DrugHitsOf(fetched, q) ==
    [i \in 1..Len(fetched) |-> Hit("drug", fetched[i].id, DrugScore(fetched[i], q))]

\* A row as the cursor returns it: the columns and the rowid.
Fetched(i) ==
    [id |-> i, name |-> drugs[i].name, generic_name |-> drugs[i].generic_name,
     indications |-> drugs[i].indications,
     contraindications |-> drugs[i].contraindications,
     interactions |-> drugs[i].interactions]

Lower(c) == IF c = "A" THEN "a" ELSE c
LowerStr(str) == [i \in 1..Len(str) |-> Lower(str[i])]

\* column LIKE '%q%': NULL never matches, ASCII letters match in either case.
Like(column, q) == column # None /\ Contains(LowerStr(column), LowerStr(q))

LikeMatches(meta, q) == \E i \in 1..Len(Fields) : Like(meta[Fields[i]], q)

RECURSIVE LikeSelect(_, _)
\* The rowids, from row i on, that the WHERE of the LIKE query accepts.
LikeSelect(i, q) ==
    IF i > Len(drugs) THEN <<>>
    ELSE (IF LikeMatches(drugs[i], q) THEN <<i>> ELSE <<>>) \o LikeSelect(i + 1, q)

\* What a MATCH can return: any rows in any order.  The full-text index
\* covers other columns than the five fields scored here and ranks by bm25.
FtsSelections ==
    {sel \in UNION {[1..m -> 1..Len(drugs)] : m \in 0..Len(drugs)} :
        \A i \in 1..Len(sel) : \A j \in 1..Len(sel) : sel[i] = sel[j] => i = j}

InitDrugs ==
    /\ query \in Queries
    /\ has_fts \in BOOLEAN
    /\ drugs \in UNION {[1..m -> DrugRows] : m \in 0..MaxRows}
    /\ limit \in Limits
    /\ rows = <<>>
    /\ guideline_hits = <<>>
    /\ drug_hits = <<>>
    /\ FusionIdle
    /\ GuidelinesIdle
    /\ HybridIdle
    /\ PipelineIdle
    /\ LlmIdle
    /\ IngestIdle
    /\ WhereIdle
    /\ called = "none"
    /\ pc = "call"

\* str.strip() == "": only spaces, or nothing at all
Blank(str) == \A i \in 1..Len(str) : str[i] = " "

\* A MATCH expression without a token is an fts5 syntax error, which
\* cur.execute raises as sqlite3.OperationalError.
MatchRaises(q) == Blank(q)

\* The FTS branch.
SearchDrugsFts ==
    /\ pc = "call"
    /\ has_fts
    /\ called' = "search_drugs"
    /\ \/ /\ MatchRaises(query)
          /\ pc' = "raised"
          /\ UNCHANGED <<rows, drug_hits>>
       \/ /\ ~MatchRaises(query)
          /\ \E sel \in FtsSelections :
                rows' = [i \in 1..Min(limit, Len(sel)) |-> Fetched(sel[i])]
          /\ drug_hits' = DrugHitsOf(rows', query)
          /\ pc' = "returned"
    /\ UNCHANGED <<guideline_hits, query, has_fts, drugs, limit, fusionVars, guidelineVars,
                   hybridVars, pipelineVars, llmVars, ingestVars, whereVars>>

\* The LIKE fallback.
SearchDrugsLike ==
    /\ pc = "call"
    /\ ~has_fts
    /\ called' = "search_drugs"
    /\ LET sel == LikeSelect(1, query)
       IN  rows' = [i \in 1..Min(limit, Len(sel)) |-> Fetched(sel[i])]
    /\ drug_hits' = DrugHitsOf(rows', query)
    /\ pc' = "returned"
    /\ UNCHANGED <<guideline_hits, query, has_fts, drugs, limit, fusionVars, guidelineVars,
                   hybridVars, pipelineVars, llmVars, ingestVars, whereVars>>

NextDrugs == SearchDrugsFts \/ SearchDrugsLike

SpecDrugs == InitDrugs /\ [][NextDrugs]_vars

----------------------------------------------------------------------------
(* hybrid_search *)

\* How a call ends: with an exception, or with a value.
Raise == [raised |-> TRUE, value |-> <<>>]
Return(v) == [raised |-> FALSE, value |-> v]

\* search_guidelines(query, k=n): get_chroma_collection or col.query raises
\* when the collection is not there.
search_guidelines(n) ==
    IF chroma_ok THEN Return(GuidelineHitsOf(ColQuery(collection, n))) ELSE Raise

\* _connect_sqlite raises FileNotFoundError without the file; the FTS branch
\* raises on a MATCH expression it cannot parse.
SearchDrugsRaises(q) == ~sqlite_ok \/ (has_fts /\ MatchRaises(q))

\* The rowids the SELECT of search_drugs can produce, before its LIMIT.
DrugSelections(q) == IF has_fts THEN FtsSelections ELSE {LikeSelect(1, q)}

\* cur.fetchall() for one of them.
FetchAll(sel, n) == [i \in 1..Min(n, Len(sel)) |-> Fetched(sel[i])]

\* search_drugs(query, k=n), sel being what the SELECT produced.
search_drugs(q, n, sel) ==
    IF SearchDrugsRaises(q) THEN Raise ELSE Return(DrugHitsOf(FetchAll(sel, n), q))

Methods == {"linear", "rrf", "max"}
HybridAlphas == {60, 150}
HybridTopns == {-1, 1, 3}

HybridUnguarded(q, g, d, m, a, n) ==
    LET gv == IF g.raised THEN <<>> ELSE g.value
        dv == IF d.raised THEN <<>> ELSE d.value
        f == IF m = "rrf" THEN rrf_fusion(gv, dv, DefaultRrfK, n)
             ELSE linear_fusion(gv, dv, a, n)
    IN  [raised |-> FALSE,
         calls |-> <<"search_guidelines", "search_drugs",
                     IF m = "rrf" THEN "rrf_fusion" ELSE "linear_fusion">>,
         value |-> <<[query |-> q, guidelines |-> gv, drugs |-> dv, fused |-> f]>>]

HybridInverted(q, g, d, m, a, n) ==
    IF g.raised
    THEN [raised |-> TRUE, calls |-> <<"search_guidelines">>, value |-> <<>>]
    ELSE IF d.raised
    THEN [raised |-> TRUE, calls |-> <<"search_guidelines", "search_drugs">>, value |-> <<>>]
    ELSE LET f == IF m # "rrf" THEN rrf_fusion(g.value, d.value, DefaultRrfK, n)
                  ELSE linear_fusion(g.value, d.value, a, n)
         IN  [raised |-> FALSE,
              calls |-> <<"search_guidelines", "search_drugs",
                          IF m # "rrf" THEN "rrf_fusion" ELSE "linear_fusion">>,
              value |-> <<[query |-> q, guidelines |-> g.value, drugs |-> d.value,
                           fused |-> f]>>]

\* hybrid_search(query, k_guideline, k_drug, method, alpha, topn), g and d
\* being how its calls of search_guidelines and search_drugs end.  No
\* try/except: the first exception ends the call.  rrf_fusion gets no k, so
\* it runs with its default.
hybrid_search(q, g, d, m, a, n) ==
    IF g.raised
    THEN [raised |-> TRUE, calls |-> <<"search_guidelines">>, value |-> <<>>]
    ELSE IF d.raised
    THEN [raised |-> TRUE, calls |-> <<"search_guidelines", "search_drugs">>, value |-> <<>>]
    ELSE LET f == IF m = "rrf" THEN rrf_fusion(g.value, d.value, DefaultRrfK, n)
                  ELSE linear_fusion(g.value, d.value, a, n)
             \* g_hits and d_hits, the lists the fusion was given, as it left them
             after == IF m = "rrf" THEN rrf_fusion_inputs(g.value, d.value, DefaultRrfK)
                      ELSE linear_fusion_inputs(g.value, d.value, a)
         IN  [raised |-> FALSE,
              calls |-> <<"search_guidelines", "search_drugs",
                          IF m = "rrf" THEN "rrf_fusion" ELSE "linear_fusion">>,
              value |-> <<[query |-> q, guidelines |-> after.guideline_hits,
                           drugs |-> after.drug_hits, fused |-> f]>>]

\* Distances 0.25 and 1.0; a row with one matching field and one with three.
HybridDists == {Pct(25), One}
HybridRows ==
    { [name |-> <<"a">>, generic_name |-> None, indications |-> None,
       contraindications |-> None, interactions |-> None],
      [name |-> <<"a">>, generic_name |-> <<"a">>, indications |-> <<"a">>,
       contraindications |-> None, interactions |-> None] }
HybridQueries == {<<>>, <<"a">>}

InitHybrid ==
    /\ collection \in UNION {[1..m -> HybridDists] : m \in 0..MaxChunks}
    /\ Ascending(collection)
    /\ chroma_ok \in BOOLEAN
    /\ n_results \in {1, DefaultK}
    /\ res = [ids |-> <<>>, distances |-> <<>>]
    /\ drugs \in UNION {[1..m -> HybridRows] : m \in 0..MaxRows}
    /\ sqlite_ok \in BOOLEAN
    /\ has_fts \in BOOLEAN
    /\ query \in HybridQueries
    /\ limit = DefaultK
    /\ rows = <<>>
    /\ method = "linear"
    /\ result = <<>>
    /\ calls = <<>>
    /\ guideline_hits = <<>>
    /\ drug_hits = <<>>
    /\ FusionIdle
    /\ PipelineIdle
    /\ LlmIdle
    /\ IngestIdle
    /\ WhereIdle
    /\ called = "none"
    /\ pc = "call"

HybridSearch ==
    /\ pc = "call"
    /\ \E m \in Methods, a \in HybridAlphas, n \in HybridTopns, sel \in DrugSelections(query) :
          \E g \in {search_guidelines(n_results)}, d \in {search_drugs(query, limit, sel)} :
          \E out \in {hybrid_search(query, g, d, m, a, n)} :
          LET d_called == Len(out.calls) >= 2
          IN  /\ method' = m
              /\ alpha' = a
              /\ topn' = n
              /\ res' = IF g.raised THEN res ELSE ColQuery(collection, n_results)
              /\ guideline_hits' = g.value
              /\ rows' = IF d_called /\ ~d.raised THEN FetchAll(sel, limit) ELSE rows
              /\ drug_hits' = IF d_called THEN d.value ELSE drug_hits
              /\ calls' = out.calls
              /\ result' = out.value
              /\ fused' = IF out.raised THEN fused ELSE out.value[1].fused
              /\ pc' = IF out.raised THEN "raised" ELSE "returned"
    /\ called' = "hybrid_search"
    /\ UNCHANGED <<k, collection, n_results, chroma_ok, sqlite_ok, query, has_fts, drugs, limit, pipelineVars, llmVars, ingestVars, whereVars>>

NextHybrid == HybridSearch

SpecHybrid == InitHybrid /\ [][NextHybrid]_vars

\* The fusions called on any pair of lists, and through hybrid_search.
InitFrame == Init \/ InitHybrid

NextFrame == LinearFusion \/ RrfFusion \/ HybridSearch

SpecFrame == InitFrame /\ [][NextFrame]_vars

----------------------------------------------------------------------------
(* pipeline.answer and the app's submit handler *)

\* Values a caller can pass as k: an int; a float, given in tenths (3.7 is
\* FloatArg(37)); the decimal str of an int; a value int() rejects (None,
\* "abc", nan).
IntArg(v) == [kind |-> "int", val |-> v]
FloatArg(tenths) == [kind |-> "float", val |-> tenths]
StrArg(v) == [kind |-> "str", val |-> v]
BadArg == [kind |-> "bad", val |-> 0]

KArgs ==
    {IntArg(v) : v \in {-3, 0, 1, 4, 8, 9, 100}}
        \cup {FloatArg(37), FloatArg(-25), StrArg(7), BadArg}

\* Values of CAREMIND_MAX_K.
MaxKs == {0, 2, DefaultMaxK}

\* int(x) raises TypeError or ValueError
IntRaises(x) == x.kind = "bad"

\* int(x) otherwise: a float is truncated towards zero
IntOf(x) ==
    IF x.kind = "float"
    THEN (IF x.val >= 0 THEN x.val \div 10 ELSE -((-x.val) \div 10))
    ELSE x.val

\* the k of the except branch of _clamp_k
FallbackK == 4

ClampNoFloor(x, maxk) == Min(maxk, IF IntRaises(x) THEN FallbackK ELSE IntOf(x))
\* _clamp_k(k), MAX_K being maxk
clamp_k(x, maxk) == Max(1, Min(maxk, IF IntRaises(x) THEN FallbackK ELSE IntOf(x)))

\* A drug_name that is not a str and not None, such as the int 5: truthy,
\* and without a strip method.
NotAStr == <<"int">>

RECURSIVE LStrip(_)
LStrip(str) == IF str # <<>> /\ Head(str) = " " THEN LStrip(Tail(str)) ELSE str
RECURSIVE RStrip(_)
RStrip(str) ==
    IF str # <<>> /\ str[Len(str)] = " " THEN RStrip(SubSeq(str, 1, Len(str) - 1)) ELSE str
\* str.strip()
Strip(str) == RStrip(LStrip(str))

Langs == {"zh", "en"}
DefaultLang == "zh"

\* A line of the generated text: the table (ZH or EN) its words come from,
\* "--" for a line without words; the key of the words; the text put into
\* it; a citation's number.
Line(tbl, key, text, n) == [table |-> tbl, key |-> key, text |-> text, n |-> n]
BlankLine == Line("--", "", <<>>, 0)

\* _i18n(lang, key): ZH for "zh", EN for anything else
i18n(lg, key) == Line(IF lg = "zh" THEN "ZH" ELSE "EN", key, <<>>, 0)

\* str(x) inside an f-string, for a str, None or NotAStr
Str(x) == x

\* - **{q_label}:** {question}  /  - **{d_label}:** {drug_name}
Labelled(lg, key, text) == [i18n(lg, key) EXCEPT !.text = Str(text)]

DrugLines(lg, dn) == IF Truthy(dn) THEN <<Labelled(lg, "drug", dn)>> ELSE <<>>

\* - [#{i}] {title} ({src}, {year}): the words for a missing title or source
\* are chosen by lang == "zh".
Citation(lg, i) == [i18n(lg, "cite") EXCEPT !.n = i]

\* The lines of the draft, joined by "\n" in the code.
DraftLines(lg, q, dn, hits) ==
    <<i18n(lg, "hdr_draft"), BlankLine, Labelled(lg, "q", q)>>
        \o DrugLines(lg, dn)
        \o <<BlankLine, i18n(lg, "evidence")>>
        \o (IF hits = <<>> THEN <<i18n(lg, "none_hits")>>
            ELSE [i \in 1..Len(hits) |-> Citation(lg, i)])
        \o <<BlankLine, i18n(lg, "note")>>

\* The lines of the demo fallback.
DemoLines(lg, q, dn) ==
    <<i18n(lg, "hdr_demo"), BlankLine, Labelled(lg, "q", q)>>
        \o DrugLines(lg, dn)
        \o <<BlankLine, i18n(lg, "demo_explain_2"), i18n(lg, "demo_step_1"),
             i18n(lg, "demo_step_2"), i18n(lg, "demo_step_3"),
             BlankLine, i18n(lg, "note")>>

\* The one hit of the demo fallback.
StubHit(lg) == [content |-> i18n(lg, "demo_explain_1"), id |-> "demo-0001"]

\* AnswerBundle(...).__dict__
Bundle(out, hits, drug) == [output |-> out, guideline_hits |-> hits, drug |-> drug]

\* R.search_drug_structured(name): rag/retriever.py defines no such
\* function, so the attribute lookup raises AttributeError.
search_drug_structured(name) == Raise

\* Step 2 of answer, when it does not raise: the lookup runs for a drug_name
\* that is not blank, and its exception leaves drug_struct None.
DrugStruct(dn) ==
    IF Truthy(dn) /\ ~Blank(dn)
    THEN LET found == search_drug_structured(Strip(dn))
         IN  IF found.raised THEN None ELSE found.value
    ELSE None

\* drug_name.strip() of a truthy value without strip raises AttributeError,
\* outside the inner try.
StripRaises(dn) == dn = NotAStr

AnswerNoDemo(q, dn, kx, lg, demo, maxk) ==
    LET g == search_guidelines(clamp_k(kx, maxk))
    IN  IF ~g.raised /\ ~StripRaises(dn)
        THEN Return(Bundle(DraftLines(lg, q, dn, g.value), g.value, DrugStruct(dn)))
        ELSE Raise

AnswerLookupUnguarded(q, dn, kx, lg, demo, maxk) ==
    LET g == search_guidelines(clamp_k(kx, maxk))
        lookup_raises ==
            /\ Truthy(dn) /\ ~StripRaises(dn) /\ ~Blank(dn)
            /\ search_drug_structured(Strip(dn)).raised
    IN  IF ~g.raised /\ ~StripRaises(dn) /\ ~lookup_raises
        THEN Return(Bundle(DraftLines(lg, q, dn, g.value), g.value, DrugStruct(dn)))
        ELSE IF demo
        THEN Return(Bundle(DemoLines(lg, q, dn), <<StubHit(lg)>>, None))
        ELSE Raise

\* answer(question, drug_name, k, lang), DEMO being demo and MAX_K maxk.
answer(q, dn, kx, lg, demo, maxk) ==
    LET g == search_guidelines(clamp_k(kx, maxk))
    IN  IF ~g.raised /\ ~StripRaises(dn)
        THEN Return(Bundle(DraftLines(lg, q, dn, g.value), g.value, DrugStruct(dn)))
        ELSE IF demo
        THEN Return(Bundle(DemoLines(lg, q, dn), <<StubHit(lg)>>, None))
        ELSE Raise

Questions == {<<>>, <<" ">>, <<"a">>, <<" ", "a">>}
DrugNames == {None, <<>>, <<" ">>, <<"a">>, NotAStr}

\* Positions of the app's Top-K slider (2 to 8, 4 at the start).
SliderKs == {2, DefaultAnswerK, 8}

InitPipeline ==
    /\ DEMO \in BOOLEAN
    /\ MAX_K \in MaxKs
    /\ ui_lang \in Langs
    /\ lang = DefaultLang
    /\ question \in Questions
    /\ drug_name \in DrugNames
    /\ k_arg = IntArg(DefaultAnswerK)
    /\ answer_result = <<>>
    /\ collection \in UNION {[1..m -> HybridDists] : m \in 0..MaxChunks}
    /\ Ascending(collection)
    /\ chroma_ok \in BOOLEAN
    /\ n_results = DefaultK
    /\ res = [ids |-> <<>>, distances |-> <<>>]
    /\ sqlite_ok = TRUE
    /\ method = "linear"
    /\ result = <<>>
    /\ calls = <<>>
    /\ guideline_hits = <<>>
    /\ drug_hits = <<>>
    /\ FusionIdle
    /\ DrugsIdle
    /\ LlmIdle
    /\ IngestIdle
    /\ WhereIdle
    /\ called = "none"
    /\ pc = "call"

\* A direct call of answer.
Answer ==
    /\ pc = "call"
    /\ \E kx \in KArgs, lg \in Langs :
          LET kk == clamp_k(kx, MAX_K)
              g == search_guidelines(kk)
              out == answer(question, drug_name, kx, lg, DEMO, MAX_K)
          IN  /\ k_arg' = kx
              /\ lang' = lg
              /\ n_results' = kk
              /\ res' = IF g.raised THEN res ELSE ColQuery(collection, kk)
              /\ guideline_hits' = g.value
              /\ answer_result' = IF out.raised THEN <<>> ELSE <<out.value>>
              /\ pc' = IF out.raised THEN "raised" ELSE "returned"
    /\ called' = "answer"
    /\ UNCHANGED <<drug_hits, collection, fusionVars, drugVars, hybridVars, llmVars, ingestVars, whereVars,
                   DEMO, MAX_K, ui_lang, question, drug_name>>

\* The app's submit handler: the question and drug fields hold str; a blank
\* question gets a warning and no call; answer is called without lang; an
\* exception of answer is shown and leaves res None.
AppSubmit ==
    /\ pc = "call"
    /\ drug_name \notin {None, NotAStr}
    /\ \E slider \in SliderKs :
          IF Blank(question)
          THEN /\ answer_result' = <<>>
               /\ UNCHANGED <<k_arg, lang, n_results, res, guideline_hits>>
          ELSE LET kx == IntArg(slider)
                   kk == clamp_k(kx, MAX_K)
                   g == search_guidelines(kk)
                   dn == IF Strip(drug_name) = <<>> THEN None ELSE Strip(drug_name)
                   out == answer(Strip(question), dn, kx, DefaultLang, DEMO, MAX_K)
               IN  /\ k_arg' = kx
                   /\ lang' = DefaultLang
                   /\ n_results' = kk
                   /\ res' = IF g.raised THEN res ELSE ColQuery(collection, kk)
                   /\ guideline_hits' = g.value
                   /\ answer_result' = IF out.raised THEN <<>> ELSE <<out.value>>
    /\ called' = "app_submit"
    /\ pc' = "returned"
    /\ UNCHANGED <<drug_hits, collection, fusionVars, drugVars, hybridVars, llmVars, ingestVars, whereVars,
                   DEMO, MAX_K, ui_lang, question, drug_name>>

NextPipeline == Answer \/ AppSubmit

SpecPipeline == InitPipeline /\ [][NextPipeline]_vars

----------------------------------------------------------------------------
(* llm_chat (rag/pipelineOld.py) *)

\* llm_chat is called with retries from -1 to MaxRetries.
MaxRetries == 1

\* What a POST to Ollama can give: requests.post raises (connection error,
\* timeout), or a response with a status and, in its JSON, a content (None
\* when the JSON has none that is a str).
NetErr == [kind |-> "neterr", status |-> 0, content |-> None]
Http(status, content) == [kind |-> "http", status |-> status, content |-> content]

Text == <<"o", "k">>
ChatReplies ==
    {NetErr, Http(404, None), Http(405, None), Http(500, None),
     Http(200, <<>>), Http(200, <<" ">>), Http(200, Text)}
GenerateReplies == {NetErr, Http(500, None), Http(200, <<" ">>), Http(200, Text)}

\* r.raise_for_status() raises HTTPError
StatusRaises(status) == status >= 400 /\ status < 600

\* bool(response): requests.Response.__bool__ is Response.ok, which is
\* False when raise_for_status() would raise.
ResponseTruthy(status) == ~StatusRaises(status)

\* not isinstance(content, str) or not content.strip()
NoContent(content) == content = None \/ Blank(content)

\* The exception the try block of one attempt ends with, "" if it returns.
ChatException(reply) ==
    IF reply.kind = "neterr" THEN "RequestException"
    ELSE IF reply.status \in {404, 405} \/ StatusRaises(reply.status) THEN "HTTPError"
    ELSE IF NoContent(reply.content) THEN "ValueError"
    ELSE ""

\* isinstance(e, requests.HTTPError) and getattr(e, "response", None)
\*   and e.response is not None and e.response.status_code in (404, 405)
FallbackTaken(reply) ==
    /\ ChatException(reply) = "HTTPError"
    /\ ResponseTruthy(reply.status)
    /\ reply.status \in {404, 405}

\* The fallback's try block returns content.
GenerateReturns(reply) ==
    /\ reply.kind = "http"
    /\ ~StatusRaises(reply.status)
    /\ ~NoContent(reply.content)

Post(attempt, url) == [attempt |-> attempt, url |-> url]

RECURSIVE LlmLoop(_, _, _, _)
\* The for loop of llm_chat from the given attempt on; replies[attempt + 1]
\* holds the server's replies during that attempt, sent the posts so far.
\* When range(retries + 1) is exhausted the function ends without a return
\* statement, which returns None.
LlmLoop(attempt, n_retries, replies, sent) ==
    IF attempt > n_retries
    THEN [raised |-> FALSE, value |-> <<None>>, posts |-> sent]
    ELSE LET reply == replies[attempt + 1]
             sent1 == Append(sent, Post(attempt, "/api/chat"))
         IN  IF ChatException(reply.chat) = ""
             THEN [raised |-> FALSE, value |-> <<reply.chat.content>>, posts |-> sent1]
             ELSE LET sent2 == IF FallbackTaken(reply.chat)
                               THEN Append(sent1, Post(attempt, "/api/generate"))
                               ELSE sent1
                  IN  IF FallbackTaken(reply.chat) /\ GenerateReturns(reply.generate)
                      THEN [raised |-> FALSE, value |-> <<reply.generate.content>>,
                            posts |-> sent2]
                      ELSE IF attempt < n_retries
                      THEN LlmLoop(attempt + 1, n_retries, replies, sent2)
                      ELSE [raised |-> TRUE, value |-> <<>>, posts |-> sent2]

\* llm_chat(system, user, timeout, retries); the only exception it raises
\* for these replies is the RuntimeError of its last attempt.
llm_chat(n_retries, replies) == LlmLoop(0, n_retries, replies, <<>>)

InitLlm ==
    /\ retries \in -1..MaxRetries
    /\ server \in [1..(MaxRetries + 1) -> [chat : ChatReplies, generate : GenerateReplies]]
    /\ posts = <<>>
    /\ llm_result = <<>>
    /\ guideline_hits = <<>>
    /\ drug_hits = <<>>
    /\ FusionIdle
    /\ GuidelinesIdle
    /\ DrugsIdle
    /\ HybridIdle
    /\ PipelineIdle
    /\ IngestIdle
    /\ WhereIdle
    /\ called = "none"
    /\ pc = "call"

LlmChat ==
    /\ pc = "call"
    /\ LET out == llm_chat(retries, server)
       IN  /\ posts' = out.posts
           /\ llm_result' = out.value
           /\ pc' = IF out.raised THEN "raised" ELSE "returned"
    /\ called' = "llm_chat"
    /\ UNCHANGED <<guideline_hits, drug_hits, fusionVars, guidelineVars, drugVars,
                   hybridVars, pipelineVars, retries, server,
                   ingestVars, whereVars>>

NextLlm == LlmChat

SpecLlm == InitLlm /\ [][NextLlm]_vars

----------------------------------------------------------------------------
(* encode_with_backoff (ingest/build_vectors.py) *)

\* encode_with_backoff is called with start_bs from -1 to MaxBatch.
MaxBatch == 4

Devices == {"cuda", "cpu"}

\* How a call of model.encode ends.  "ok": it returns the vectors.  "oom":
\* a RuntimeError whose message has "CUDA out of memory".  "cublas": a
\* RuntimeError whose message has "CUBLAS" and not "CUDA out of memory",
\* such as CUBLAS_STATUS_EXECUTION_FAILED.  "runtime": a RuntimeError with
\* neither.  "other": an exception that is not a RuntimeError.
EncodeOutcomes == {"ok", "oom", "cublas", "runtime", "other"}

\* except RuntimeError as e
IsRuntimeError(outcome) == outcome \in {"oom", "cublas", "runtime"}

\* "CUDA out of memory" in msg or "CUBLAS" in msg
OomBranch(outcome) == IsRuntimeError(outcome) /\ outcome \in {"oom", "cublas"}

InitialBsUnclamped(start) == start
\* bs = max(1, start_bs)
InitialBs(start) == Max(1, start)

\* bs = max(1, bs // 2)
Halved(b) == Max(1, b \div 2)

\* One call of model.encode.
Attempt(b, dev, outcome) == [bs |-> b, device |-> dev, outcome |-> outcome]

\* At the call: the arguments, and model.device.
InitEncode ==
    /\ start_bs \in -1..MaxBatch
    /\ cpu_fallback \in BOOLEAN
    /\ current_device \in Devices
    /\ bs = 1
    /\ attempts = <<>>
    /\ guideline_hits = <<>>
    /\ drug_hits = <<>>
    /\ FusionIdle
    /\ GuidelinesIdle
    /\ DrugsIdle
    /\ HybridIdle
    /\ PipelineIdle
    /\ LlmIdle
    /\ UpsertIdle
    /\ FlushIdle
    /\ WhereIdle
    /\ called = "none"
    /\ pc = "call"

\* The statements before the loop.
EncodeEnter ==
    /\ pc = "call"
    /\ bs' = InitialBs(start_bs)
    /\ called' = "encode_with_backoff"
    /\ pc' = "loop"
    /\ UNCHANGED <<guideline_hits, drug_hits, fusionVars, guidelineVars, drugVars,
                   hybridVars, pipelineVars, llmVars, start_bs, cpu_fallback,
                   current_device, attempts, upsertVars, flushVars, whereVars>>

\* One pass of the while loop: model.encode with the batch size bs, and the
\* handling of its exception.  The CPU fallback encodes with batch size 1
\* and then moves the model back to CUDA; an exception of either leaves the
\* function.
EncodeTry ==
    /\ pc = "loop"
    /\ \E outcome \in EncodeOutcomes :
          LET tried == Append(attempts, Attempt(bs, current_device, outcome))
          IN  IF outcome = "ok"
              THEN /\ attempts' = tried
                   /\ pc' = "returned"
                   /\ UNCHANGED <<bs, current_device>>
              ELSE IF OomBranch(outcome) /\ bs > 1
              THEN /\ attempts' = tried
                   /\ bs' = Halved(bs)
                   /\ pc' = "loop"
                   /\ UNCHANGED current_device
              ELSE IF OomBranch(outcome) /\ cpu_fallback /\ current_device = "cuda"
              THEN \E on_cpu \in EncodeOutcomes, moved_back \in BOOLEAN :
                      /\ attempts' = Append(tried, Attempt(1, "cpu", on_cpu))
                      /\ current_device' = "cpu"
                      /\ pc' = IF on_cpu = "ok" /\ moved_back THEN "returned" ELSE "raised"
                      /\ UNCHANGED bs
              ELSE /\ attempts' = tried
                   /\ pc' = "raised"
                   /\ UNCHANGED <<bs, current_device>>
    /\ UNCHANGED <<guideline_hits, drug_hits, called, fusionVars, guidelineVars, drugVars,
                   hybridVars, pipelineVars, llmVars, start_bs, cpu_fallback,
                   upsertVars, flushVars, whereVars>>

NextEncode == EncodeEnter \/ EncodeTry

SpecEncode == InitEncode /\ [][NextEncode]_vars

\* model.encode ends, and so does every pass of the loop.
SpecEncodeFair == SpecEncode /\ WF_vars(NextEncode)

----------------------------------------------------------------------------
(* upsert_row (ingest/load_drugs.py) *)

\* upsert_row is called at most MaxUpserts times on one database.
MaxUpserts == 2

\* columns
Columns == {"indications", "contraindications", "interactions", "pregnancy_category", "source"}

\* float("nan"), an empty Excel cell as pandas reads it
NaN == <<"nan">>

\* What a cell of the row can hold: None (also a missing key), NaN, "",
\* " ", "x", " y".
CellValues == {None, NaN, <<>>, <<" ">>, <<"x">>, <<" ", "y">>}
UpsertNames == {<<" ">>, <<"a">>, <<"a", " ">>, <<"b">>}

\* A row dict.
RowDict(name, cell) ==
    [f \in {"drug_name"} \cup Columns |-> IF f = "drug_name" THEN name ELSE cell[f]]

\* The rows upsert_row is called with: one column holds v and the others
\* are missing, or every column holds v.
InputRows ==
    {RowDict(name, [c \in Columns |-> IF c = col THEN v ELSE None]) :
        name \in UpsertNames, col \in Columns, v \in CellValues}
    \cup {RowDict(name, [c \in Columns |-> v]) : name \in UpsertNames, v \in {<<>>, <<"x">>}}

\* pd.isna(v)
IsNa(v) == v \in {None, NaN}

\* None if pd.isna(row.get(c)) else str(row.get(c)).strip(): None is bound
\* as NULL.
Param(v) == IF IsNa(v) THEN None ELSE Strip(Str(v))

\* params
Params(r) == RowDict(Strip(r.drug_name), [c \in Columns |-> Param(r[c])])

\* COALESCE(excluded, stored): the first of the two that is not NULL
Coalesce(excluded, stored) == IF excluded # None THEN excluded ELSE stored

\* Positions of the stored rows the UNIQUE drug_name makes the INSERT
\* conflict with.
Conflicts(tbl, name) == {i \in 1..Len(tbl) : tbl[i].drug_name = name}

\* ON CONFLICT(drug_name) DO UPDATE SET c = COALESCE(excluded.c, drugs.c)
DoUpdate(stored, excluded) ==
    RowDict(stored.drug_name, [c \in Columns |-> Coalesce(excluded[c], stored[c])])

UpsertAlwaysInserts(tbl, r) ==
    IF Params(r).drug_name = <<>> THEN [raised |-> TRUE, value |-> tbl]
    ELSE [raised |-> FALSE, value |-> Append(tbl, Params(r))]

\* upsert_row(con, row) on the table tbl: ValueError for a drug_name that
\* strips to "", else the table after the statement.
upsert_row(tbl, r) ==
    LET params == Params(r)
    IN  IF params.drug_name = <<>> THEN [raised |-> TRUE, value |-> tbl]
        ELSE IF Conflicts(tbl, params.drug_name) = {}
        THEN [raised |-> FALSE, value |-> Append(tbl, params)]
        ELSE [raised |-> FALSE,
              value |-> [i \in 1..Len(tbl) |->
                            IF i \in Conflicts(tbl, params.drug_name)
                            THEN DoUpdate(tbl[i], params) ELSE tbl[i]]]

\* The table just created by create_schema.
InitUpsert ==
    /\ drugs_table = <<>>
    /\ row = <<>>
    /\ n_upserts = 0
    /\ guideline_hits = <<>>
    /\ drug_hits = <<>>
    /\ FusionIdle
    /\ GuidelinesIdle
    /\ DrugsIdle
    /\ HybridIdle
    /\ PipelineIdle
    /\ LlmIdle
    /\ EncodeIdle
    /\ FlushIdle
    /\ WhereIdle
    /\ called = "none"
    /\ pc = "call"

\* One call of upsert_row; the loop of ingest_excel ends with the first
\* call that raises.
UpsertRow ==
    /\ pc \in {"call", "returned"}
    /\ n_upserts < MaxUpserts
    /\ \E r \in InputRows :
          \E out \in {upsert_row(drugs_table, r)} :
              /\ row' = <<r>>
              /\ drugs_table' = out.value
              /\ pc' = IF out.raised THEN "raised" ELSE "returned"
    /\ n_upserts' = n_upserts + 1
    /\ called' = "upsert_row"
    /\ UNCHANGED <<guideline_hits, drug_hits, fusionVars, guidelineVars, drugVars,
                   hybridVars, pipelineVars, llmVars, encodeVars, flushVars, whereVars>>

NextUpsert == UpsertRow

SpecUpsert == InitUpsert /\ [][NextUpsert]_vars

----------------------------------------------------------------------------
(* main and flush (ingest/build_vectors.py) *)

\* The JSONL file holds at most MaxLines objects with content and meta.
MaxLines == 2

\* A meta value: a str, or a list of one-character strs.  None and an int
\* (a chunk_id, written as its digits) stand for themselves.
MetaStr(s) == [type |-> "str", val |-> s]
MetaList(items) == [type |-> "list", val |-> items]

\* One object of the file.
Chunk(src, cid, content, authors) ==
    [content |-> content, meta |-> [source |-> src, chunk_id |-> cid, authors |-> authors]]

Chunks ==
    {Chunk(src, cid, content, authors) :
        src \in {<<>>, <<"g">>}, cid \in {None, <<"1">>}, content \in {<<"c">>, <<"d">>},
        authors \in {MetaStr(<<"q">>), MetaList(<<"q">>), MetaList(<<"q", "z">>)}}

RECURSIVE JoinComma(_)
\* ", ".join(str(x) for x in seq)
JoinComma(items) ==
    IF items = <<>> THEN <<>>
    ELSE IF Len(items) = 1 THEN <<items[1]>>
    ELSE <<items[1], ",", " ">> \o JoinComma(Tail(items))

\* sanitize_meta(meta): a scalar is kept, a list of scalars is joined.
sanitize_meta(meta) ==
    [meta EXCEPT !.authors = IF @.type = "list" THEN MetaStr(JoinComma(@.val)) ELSE @]

\* stable_id(meta, content): source|chunk_id|sha1(content)[:12] when there
\* is a source and a chunk_id, else g_sha1(source)[:8]_sha1(content)[:16].
\* A digest stands for its text (no two texts of the model collide).
stable_id(meta, content) ==
    LET src == Strip(Str(meta.source))
    IN  IF src # <<>> /\ meta.chunk_id # None
        THEN [form |-> "chunk", source |-> src, chunk_id |-> meta.chunk_id, content |-> content]
        ELSE [form |-> "g", source |-> src, chunk_id |-> None, content |-> content]

\* model.encode(texts, ...).tolist(): one vector per text, in order.
Embed(docs) == [i \in 1..Len(docs) |-> [embedding_of |-> docs[i]]]

KeepAll(ids) == [i \in 1..Len(ids) |-> i]
\* The de-duplication loop: keep holds, in order, every i whose id was not
\* seen at a smaller index.
Keep(ids) ==
    LET firsts == {i \in 1..Len(ids) : \A j \in 1..(i - 1) : ids[j] # ids[i]}
    IN  [n \in 1..Cardinality(firsts) |->
            CHOOSE i \in firsts : Cardinality({j \in firsts : j < i}) = n - 1]

\* [lst[i] for i in idx]
Pick(lst, idx) == [n \in 1..Len(idx) |-> lst[idx[n]]]

\* One write call on the collection, for the positions idx of the lists.
WriteCall(op, w, idx) ==
    [op |-> op, ids |-> Pick(w.ids, idx), embeddings |-> Pick(w.embeddings, idx),
     documents |-> Pick(w.documents, idx), metadatas |-> Pick(w.metadatas, idx)]

\* The collection after a call that did not raise: an item per id.
Written(st, call) ==
    {it \in st : \A i \in 1..Len(call.ids) : it.id # call.ids[i]}
        \cup {[id |-> call.ids[i], embedding |-> call.embeddings[i],
               document |-> call.documents[i], metadata |-> call.metadatas[i]] :
                    i \in 1..Len(call.ids)}

RECURSIVE WrittenAll(_, _)
WrittenAll(st, wcalls) ==
    IF wcalls = <<>> THEN st ELSE WrittenAll(Written(st, Head(wcalls)), Tail(wcalls))

\* [i for i in range(len(ids)) if ids[i] in / not in existing], ascending
Indices(set) ==
    [n \in 1..Cardinality(set) |-> CHOOSE i \in set : Cardinality({j \in set : j < i}) = n - 1]

\* The try block's calls: upsert, or for an older Chroma add of the new ids
\* and update of the existing ones.
BatchCalls(st, w, can_upsert) ==
    LET all == 1..Len(w.ids)
        upd == {i \in all : \E it \in st : it.id = w.ids[i]}
    IN  IF can_upsert THEN <<WriteCall("upsert", w, Indices(all))>>
        ELSE (IF all \ upd # {} THEN <<WriteCall("add", w, Indices(all \ upd))>> ELSE <<>>)
             \o (IF upd # {} THEN <<WriteCall("update", w, Indices(upd))>> ELSE <<>>)

RECURSIVE RepairCalls(_, _, _, _, _)
\* The per-item repair from item i on: each item is written alone, twice
\* when its first call raises (fallback_meta of a sanitized meta is that
\* meta).  The calls, the last of each item not raising.
RepairCalls(st, w, can_upsert, twice, i) ==
    IF i > Len(w.ids) THEN <<>>
    ELSE LET op == IF can_upsert THEN "upsert"
                   ELSE IF \E it \in st : it.id = w.ids[i] THEN "update" ELSE "add"
             call == WriteCall(op, w, <<i>>)
         IN  (IF twice THEN <<call, call>> ELSE <<call>>)
                 \o RepairCalls(Written(st, call), w, can_upsert, twice, i + 1)

\* How the collection takes the calls of one flush.  "ok": none raises.
\* "repair": the first raises DuplicateIDError or ValueError, the per-item
\* calls do not.  "retry": as "repair", each item's first call raising.
\* "abort": as "retry", the first item's second call raising too, which
\* leaves flush.  "fatal": the first call raises another exception, which
\* leaves flush; so does an exception of model.encode ("encode").
FlushOutcomes == {"ok", "repair", "retry", "abort", "fatal", "encode"}

\* flush(batch) for a batch that is not empty, on the collection st:
\* whether it raised, its write calls, the collection after it, and what it
\* adds to total.
flush(b, st, can_upsert, outcome) ==
    LET docs == [i \in 1..Len(b) |-> b[i].content]
        metas == [i \in 1..Len(b) |-> sanitize_meta(b[i].meta)]
        ids == [i \in 1..Len(b) |-> stable_id(b[i].meta, b[i].content)]
        vecs == Embed(docs)
        keep == Keep(ids)
        w == [ids |-> Pick(ids, keep), documents |-> Pick(docs, keep),
              embeddings |-> Pick(vecs, keep), metadatas |-> Pick(metas, keep)]
        first == BatchCalls(st, w, can_upsert)
        repair == RepairCalls(st, w, can_upsert, outcome = "retry", 1)
    IN  IF outcome = "encode"
        THEN [raised |-> TRUE, writes |-> <<>>, store |-> st, added |-> 0]
        ELSE IF outcome = "fatal"
        THEN [raised |-> TRUE, writes |-> <<Head(first)>>, store |-> st, added |-> 0]
        ELSE IF outcome = "abort"
        THEN [raised |-> TRUE, writes |-> <<Head(first)>> \o SubSeq(repair, 1, 1) \o SubSeq(repair, 1, 1),
              store |-> st, added |-> 0]
        ELSE IF outcome = "ok"
        THEN [raised |-> FALSE, writes |-> first, store |-> WrittenAll(st, first),
              added |-> Len(w.ids)]
        ELSE [raised |-> FALSE, writes |-> <<Head(first)>> \o repair,
              store |-> WrittenAll(st, repair), added |-> Len(w.ids)]

\* main before its loop: a new collection, the file not read.
InitFlush ==
    /\ unread \in 0..MaxLines
    /\ current_bs \in {1, 2}
    /\ has_upsert \in BOOLEAN
    /\ BUFFER = <<>>
    /\ batch = <<>>
    /\ total = 0
    /\ store = {}
    /\ writes = <<>>
    /\ guideline_hits = <<>>
    /\ drug_hits = <<>>
    /\ FusionIdle
    /\ GuidelinesIdle
    /\ DrugsIdle
    /\ HybridIdle
    /\ PipelineIdle
    /\ LlmIdle
    /\ EncodeIdle
    /\ UpsertIdle
    /\ WhereIdle
    /\ called = "none"
    /\ pc = "call"

\* flush(b) as called from main.
CallFlush(b) ==
    \E outcome \in FlushOutcomes :
        \E out \in {flush(b, store, has_upsert, outcome)} :
            /\ batch' = b
            /\ writes' = out.writes
            /\ store' = out.store
            /\ total' = total + out.added
            /\ pc' = IF out.raised THEN "raised" ELSE pc
            /\ BUFFER' = IF out.raised THEN b ELSE <<>>

\* One pass of main's loop over the file: the object is buffered, and a
\* full BUFFER is flushed and cleared.
ReadObj ==
    /\ pc = "call"
    /\ unread > 0
    /\ unread' = unread - 1
    /\ \E obj \in Chunks :
          IF Len(BUFFER) + 1 >= current_bs
          THEN CallFlush(Append(BUFFER, obj))
          ELSE /\ BUFFER' = Append(BUFFER, obj)
               /\ UNCHANGED <<batch, writes, store, total, pc>>
    /\ called' = "main"
    /\ UNCHANGED <<guideline_hits, drug_hits, fusionVars, guidelineVars, drugVars,
                   hybridVars, pipelineVars, llmVars, encodeVars, upsertVars, whereVars,
                   current_bs, has_upsert>>

\* After the loop: the remainder is flushed.
FlushRemainder ==
    /\ pc = "call"
    /\ unread = 0
    /\ IF BUFFER # <<>>
       THEN \E outcome \in FlushOutcomes :
              \E out \in {flush(BUFFER, store, has_upsert, outcome)} :
                  /\ batch' = BUFFER
                  /\ writes' = out.writes
                  /\ store' = out.store
                  /\ total' = total + out.added
                  /\ pc' = IF out.raised THEN "raised" ELSE "returned"
                  /\ BUFFER' = IF out.raised THEN BUFFER ELSE <<>>
       ELSE /\ pc' = "returned"
            /\ UNCHANGED <<BUFFER, batch, writes, store, total>>
    /\ called' = "main"
    /\ UNCHANGED <<guideline_hits, drug_hits, fusionVars, guidelineVars, drugVars,
                   hybridVars, pipelineVars, llmVars, encodeVars, upsertVars, whereVars,
                   current_bs, has_upsert, unread>>

NextFlush == ReadObj \/ FlushRemainder

SpecFlush == InitFlush /\ [][NextFlush]_vars

----------------------------------------------------------------------------
(* search_guidelines called with a where *)

\* A where: None, the empty dict, a dict with one key, a dict with two
\* (which Chroma rejects).  A dict is the list of its keys.
Wheres == {None, <<>>, <<"source">>, <<"source", "year">>}

\* How a call of col.query ends.  "ok": it returns.  "where_error": a
\* ValueError whose message has "Expected where to have exactly one
\* operator".  "value_error": another ValueError.  "error": an exception
\* that is not a ValueError.
QueryOutcomes == {"ok", "where_error", "value_error", "error"}

KwargsWhereUnlessNone(w) == IF w # None THEN <<w>> ELSE <<>>
\* if where: kwargs["where"] = where.  <<>> is kwargs without the key.
KwargsWhere(w) == IF Truthy(w) THEN <<w>> ELSE <<>>

\* One call col.query(**kwargs).
QueryCall(kw, outcome) == [where |-> kw, outcome |-> outcome]

\* What col.query returns with a where: the n nearest of the chunks the
\* filter keeps, nearest first.
ColQueryWhere(coll, n, kept) ==
    LET idx == Indices(kept)
        m == Min(n, Len(idx))
    IN  [ids |-> SubSeq(idx, 1, m), distances |-> [i \in 1..m |-> coll[idx[i]]]]

\* The try/except around col.query: first and second are how the first
\* and the second call end, kept the chunks where selects.  The retry is
\* outside any try, so its exception leaves the function.
query_guarded(w, n, first, second, kept) ==
    LET kw == KwargsWhere(w)
        filtered == IF kw # <<>> THEN ColQueryWhere(collection, n, kept)
                    ELSE ColQuery(collection, n)
    IN  IF first = "ok"
        THEN [raised |-> FALSE, calls |-> <<QueryCall(kw, first)>>, value |-> filtered]
        ELSE IF first = "where_error" /\ kw # <<>>
        THEN [raised |-> second # "ok",
              calls |-> <<QueryCall(kw, first), QueryCall(<<>>, second)>>,
              value |-> ColQuery(collection, n)]
        ELSE [raised |-> TRUE, calls |-> <<QueryCall(kw, first)>>, value |-> res]

InitWhere ==
    /\ where \in Wheres
    /\ query_calls = <<>>
    /\ collection \in UNION {[1..m -> {Pct(25), One}] : m \in 0..MaxChunks}
    /\ Ascending(collection)
    /\ n_results \in {1, DefaultK}
    /\ res = [ids |-> <<>>, distances |-> <<>>]
    /\ guideline_hits = <<>>
    /\ drug_hits = <<>>
    /\ FusionIdle
    /\ DrugsIdle
    /\ HybridIdle
    /\ PipelineIdle
    /\ LlmIdle
    /\ IngestIdle
    /\ called = "none"
    /\ pc = "call"

\* search_guidelines(query, k=n_results, where=where)
SearchGuidelinesWhere ==
    /\ pc = "call"
    /\ \E first \in QueryOutcomes, second \in QueryOutcomes,
          kept \in SUBSET (1..Len(collection)) :
          \E out \in {query_guarded(where, n_results, first, second, kept)} :
              /\ query_calls' = out.calls
              /\ res' = IF out.raised THEN res ELSE out.value
              /\ guideline_hits' = IF out.raised THEN <<>> ELSE GuidelineHitsOf(out.value)
              /\ pc' = IF out.raised THEN "raised" ELSE "returned"
    /\ called' = "search_guidelines"
    /\ UNCHANGED <<drug_hits, collection, n_results, fusionVars, drugVars,
                   hybridVars, pipelineVars, llmVars, ingestVars, where>>

NextWhere == SearchGuidelinesWhere

SpecWhere == InitWhere /\ [][NextWhere]_vars

----------------------------------------------------------------------------
(* Vocabulary of the fusion claims *)

Returned(f) == pc = "returned" /\ called = f

\* Position of lst[i] once lst is sorted by descending key, equal keys kept
\* in their original order (keys[i] is the key of lst[i]).
StablePos(keys, i) ==
    1 + Cardinality({j \in 1..Len(keys) : keys[j] > keys[i]})
      + Cardinality({j \in 1..(i - 1) : keys[j] = keys[i]})

ScoresOf(lst) == [i \in 1..Len(lst) |-> lst[i].score]
FusedScoresOf(lst) == [i \in 1..Len(lst) |-> lst[i].fused_score]
KeysOf(lst) == [i \in 1..Len(lst) |-> Key(lst[i])]
KeySet(lst) == {Key(lst[i]) : i \in 1..Len(lst)}
Occurrences(lst, key) == {i \in 1..Len(lst) : Key(lst[i]) = key}
Descending(lst) ==
    \A i \in 1..Len(lst) : \A j \in i..Len(lst) : lst[i].fused_score >= lst[j].fused_score
DistinctKeys(lst) ==
    \A i \in 1..Len(lst) : \A j \in 1..Len(lst) : Key(lst[i]) = Key(lst[j]) => i = j
InputKeys == KeySet(guideline_hits) \cup KeySet(drug_hits)

RECURSIVE RankSum(_, _, _, _)
\* Sum of 1/(kk + rank) over the occurrences of key among the first n hits
\* of lst, rank being the hit's stable descending-score rank in lst.
RankSum(lst, key, kk, n) ==
    IF n = 0 THEN 0
    ELSE RankSum(lst, key, kk, n - 1)
         + (IF Key(lst[n]) = key THEN RrfTerm(kk, StablePos(ScoresOf(lst), n)) ELSE 0)

Accumulated(key) ==
    RankSum(guideline_hits, key, k, Len(guideline_hits))
    + RankSum(drug_hits, key, k, Len(drug_hits))

----------------------------------------------------------------------------
(* C1 *)

\* Guideline scores 0.95 and 0.40, one drug score 1.0; the fused scores
\* 0.57, 0.40 and 0.24 in units of 1/(100 * One).
ExampleGuidelines == <<Hit("guideline", 1, Pct(95)), Hit("guideline", 2, Pct(40))>>
ExampleDrugs == <<Hit("drug", 1, Pct(100))>>
ExampleFused ==
    << WithFused(Hit("guideline", 1, Pct(95)), 57 * One),
       WithFused(Hit("drug", 1, Pct(100)), 40 * One),
       WithFused(Hit("guideline", 2, Pct(40)), 24 * One) >>

\* The claim's own construction: every guideline hit annotated with
\* alpha * score, every drug hit with (1 - alpha) * score, guidelines first.
AnnotatedConcat ==
    [i \in 1..(Len(guideline_hits) + Len(drug_hits)) |->
        IF i <= Len(guideline_hits)
        THEN WithFused(guideline_hits[i], alpha * guideline_hits[i].score)
        ELSE WithFused(drug_hits[i - Len(guideline_hits)],
                       (100 - alpha) * drug_hits[i - Len(guideline_hits)].score)]

\* C1: for a count topn >= 0, linear_fusion returns the first topn entries of
\* the annotated concatenation (guideline hits weighted alpha, drug hits
\* weighted 1 - alpha, guidelines first) sorted by descending fused_score,
\* entries of equal fused_score in their order of concatenation; and the
\* worked example of the specification gives [g#1 0.57, d#1 0.40, g#2 0.24].
C1_LinearFusionIsSortedWeightedPrefix ==
    /\ (Returned("linear_fusion") /\ topn >= 0) =>
          LET annotated == AnnotatedConcat
              keys == FusedScoresOf(annotated)
          IN  /\ Len(fused) = Min(topn, Len(annotated))
              /\ \A i \in 1..Len(annotated) :
                    LET p == StablePos(keys, i)
                    IN  p <= Len(fused) => fused[p] = annotated[i]
    /\ ( /\ Returned("linear_fusion")
         /\ guideline_hits = ExampleGuidelines
         /\ drug_hits = ExampleDrugs
         /\ alpha = 60
         /\ topn = 3 ) => fused = ExampleFused

C1_Witness ==
    /\ Returned("linear_fusion")
    /\ guideline_hits = ExampleGuidelines
    /\ drug_hits = ExampleDrugs
    /\ alpha = 60
    /\ topn = 3
    /\ fused = ExampleFused

----------------------------------------------------------------------------
(* C2 *)

\* C2: when rrf_fusion returns for a count topn >= 0, its output has one
\* entry per distinct (source, id) of the inputs, up to topn of them; an
\* entry's fused_score is the sum, over the occurrences of its identity in
\* the two lists, of 1 / (k + rank), the rank being taken in the occurrence's
\* own list by descending score with equal scores in original order; the
\* output is in descending fused_score and no identity left out has a higher
\* fused_score than one kept.
C2_RrfIsRankReciprocalSum ==
    (Returned("rrf_fusion") /\ topn >= 0) =>
        /\ Len(fused) = Min(topn, Cardinality(InputKeys))
        /\ DistinctKeys(fused)
        /\ \A i \in 1..Len(fused) :
              /\ Key(fused[i]) \in InputKeys
              /\ fused[i].fused_score = Accumulated(Key(fused[i]))
        /\ Descending(fused)
        /\ \A key \in InputKeys \ KeySet(fused) :
              \A i \in 1..Len(fused) : Accumulated(key) <= fused[i].fused_score

\* Two guideline hits given in ascending score (so the ranking reorders
\* them), and a drug hit, all kept.
C2_Witness ==
    /\ Returned("rrf_fusion")
    /\ k = 60
    /\ Len(guideline_hits) >= 2
    /\ guideline_hits[1].score < guideline_hits[2].score
    /\ Key(guideline_hits[1]) # Key(guideline_hits[2])
    /\ Len(drug_hits) >= 1
    /\ Len(fused) = 3
    /\ Key(fused[1]) = Key(guideline_hits[2])

----------------------------------------------------------------------------
(* C3 *)

ValidLinearCall == alpha \in 0..100 /\ topn > 0
ValidRrfCall == k > 0 /\ topn > 0

\* C3: no two entries of a fused output share the same (source, id), for
\* linear_fusion and for rrf_fusion alike (stated here for calls with valid
\* parameters only).
C3_FusedIdentitiesUnique ==
    /\ (Returned("linear_fusion") /\ ValidLinearCall) => DistinctKeys(fused)
    /\ (Returned("rrf_fusion") /\ ValidRrfCall) => DistinctKeys(fused)

----------------------------------------------------------------------------
(* C4 *)

Appears(h) == \E i \in 1..Len(fused) : Key(fused[i]) = Key(h)

\* C4: for every topn the caller passes, the fused output has at most topn
\* entries (read for a negative topn as: no entry at all), and when the two
\* lists together hold at most topn hits every input hit is in the output.
C4_TruncatedToTopn ==
    (Returned("linear_fusion") \/ Returned("rrf_fusion")) =>
        /\ Len(fused) <= Max(topn, 0)
        /\ (Len(guideline_hits) + Len(drug_hits) <= topn) =>
              /\ \A i \in 1..Len(guideline_hits) : Appears(guideline_hits[i])
              /\ \A i \in 1..Len(drug_hits) : Appears(drug_hits[i])

----------------------------------------------------------------------------
(* C5 *)

Unfused(lst) == [i \in 1..Len(lst) |-> Hit(lst[i].source, lst[i].id, lst[i].score)]

\* C5: fusing an empty list with a non-empty one never raises and, for
\* linear_fusion, returns the non-empty list's hits in their original
\* relative order, truncated to topn; two empty lists give an empty list.
\* Stated for the lists hybrid_search can pass (no guideline hit, drug hits
\* of distinct ids) and valid parameters.
C5_LinearKeepsOrderOfSingleList ==
    /\ ( /\ Returned("linear_fusion")
         /\ ValidLinearCall
         /\ guideline_hits = <<>>
         /\ \A i \in 1..Len(drug_hits) : drug_hits[i].source = "drug"
         /\ DistinctKeys(drug_hits) ) => Unfused(fused) = Slice(drug_hits, topn)
    /\ ( /\ called \in {"linear_fusion", "rrf_fusion"}
         /\ (called = "linear_fusion" => ValidLinearCall)
         /\ (called = "rrf_fusion" => ValidRrfCall) ) => pc # "raised"

----------------------------------------------------------------------------
(* C6 *)

Repeated(key) ==
    Cardinality(Occurrences(guideline_hits, key)) + Cardinality(Occurrences(drug_hits, key)) >= 2

\* The occurrence add_list meets first: it goes through the guideline list
\* before the drug list, and through each list by rank.
FirstProcessed(key) ==
    LET lst == IF Occurrences(guideline_hits, key) # {} THEN guideline_hits ELSE drug_hits
        i == CHOOSE i \in Occurrences(lst, key) :
                \A j \in Occurrences(lst, key) :
                    StablePos(ScoresOf(lst), i) <= StablePos(ScoresOf(lst), j)
    IN  lst[i]

EntriesOf(key) == {i \in 1..Len(fused) : Key(fused[i]) = key}

\* C6 as claimed (valid parameters): an identity that occurs more than once
\* across the inputs has exactly one entry in rrf_fusion's output, the copy
\* of the occurrence met first carrying the sum of 1 / (k + rank) over all
\* of its occurrences.
C6_RepeatedIdentityHasExactlyOneEntry ==
    (Returned("rrf_fusion") /\ ValidRrfCall) =>
        \A key \in InputKeys : Repeated(key) =>
            /\ Cardinality(EntriesOf(key)) = 1
            /\ \A i \in EntriesOf(key) :
                  fused[i] = WithFused(FirstProcessed(key), Accumulated(key))

\* C6 as amended: such an identity has at most one entry in the output,
\* exactly one when the number of distinct identities is <= topn (otherwise
\* the truncation to topn may drop it); the entry is the copy of the
\* occurrence that add_list meets first (guideline list before drug list,
\* each list by rank) and its fused_score is the sum of 1 / (k + rank) over
\* all occurrences of the identity.
C6_RepeatedIdentityAccumulates ==
    Returned("rrf_fusion") =>
        \A key \in InputKeys : Repeated(key) =>
            LET entries == EntriesOf(key)
            IN  /\ Cardinality(entries) <= 1
                /\ Cardinality(InputKeys) <= topn => Cardinality(entries) = 1
                /\ \A i \in entries :
                      fused[i] = WithFused(FirstProcessed(key), Accumulated(key))

\* One identity in both lists, a second identity alone, everything kept.
C6_Witness ==
    /\ Returned("rrf_fusion")
    /\ k = 60
    /\ topn = 3
    /\ \E key \in InputKeys :
          /\ Occurrences(guideline_hits, key) # {}
          /\ Occurrences(drug_hits, key) # {}
          /\ \E i \in EntriesOf(key) : fused[i].fused_score = Accumulated(key)
    /\ Len(fused) = 2

----------------------------------------------------------------------------
(* C8 *)

ScaleFactors == {3}
Scaled(lst, c) == [i \in 1..Len(lst) |-> Hit(lst[i].source, lst[i].id, c * lst[i].score)]

\* C8: rrf_fusion returns the same sequence of (source, id) identities when
\* every score of both input lists is multiplied by the same positive
\* constant, whatever k and topn.
C8_RrfInvariantUnderScoreScaling ==
    Returned("rrf_fusion") =>
        \A c \in ScaleFactors :
            KeysOf(rrf_fusion(Scaled(guideline_hits, c), Scaled(drug_hits, c), k, topn))
                = KeysOf(fused)

\* Hits of different scores in both lists, given out of score order.
C8_Witness ==
    /\ Returned("rrf_fusion")
    /\ k = 1
    /\ topn = 3
    /\ Len(guideline_hits) = 2
    /\ Len(drug_hits) = 2
    /\ guideline_hits[1].score < guideline_hits[2].score
    /\ drug_hits[1].score < drug_hits[2].score
    /\ Len(fused) = 3

----------------------------------------------------------------------------
(* C9 *)

\* C9: every hit search_guidelines returns has score
\* min(1, max(0, 1 - distance)) for the distance the index reported for it;
\* the score is in [0, 1], is 1 for a distance <= 0 and 0 for a distance
\* >= 1; and the call returns for every distance.
C9_GuidelineScoreIsClampedSimilarity ==
    /\ Returned("search_guidelines") =>
          /\ Len(guideline_hits) = Len(res.ids)
          /\ \A i \in 1..Len(guideline_hits) :
                LET d == res.distances[i]
                    sc == guideline_hits[i].score
                IN  /\ guideline_hits[i].id = res.ids[i]
                    /\ sc = Min(One, Max(0, One - d))
                    /\ sc \in 0..One
                    /\ d <= 0 => sc = One
                    /\ d >= One => sc = 0
    /\ called = "search_guidelines" => pc = "returned"

\* A reply with a negative distance, one strictly between 0 and 1 and one
\* above 1.
C9_Witness ==
    /\ Returned("search_guidelines")
    /\ Len(guideline_hits) = 3
    /\ res.distances[1] < 0
    /\ res.distances[2] > 0
    /\ res.distances[2] < One
    /\ res.distances[3] > One
    /\ guideline_hits[2].score = One - res.distances[2]

----------------------------------------------------------------------------
(* C10 *)

\* n: the number of the five fields that contain the query as a substring.
ContainingFields(meta, q) ==
    Cardinality({i \in 1..Len(Fields) :
        meta[Fields[i]] # None /\ Contains(meta[Fields[i]], q)})

\* C10: every hit search_drugs returns has score max(0.3, (n + c) / 6), n
\* the number of the five fields that contain the query (case-sensitive
\* substring) and c = 1 if the query occurs in the space-joined fields, else
\* 0; so the score is in [0.3, 1.0].
C10_DrugScoreIsFieldFraction ==
    Returned("search_drugs") =>
        \A i \in 1..Len(drug_hits) :
            LET n == ContainingFields(rows[i], query)
                c == IF Contains(Hay(rows[i]), query) THEN 1 ELSE 0
            IN  /\ 6 * drug_hits[i].score = Max(6 * Pct(30), (n + c) * One)
                /\ drug_hits[i].score >= Pct(30)
                /\ drug_hits[i].score <= One

----------------------------------------------------------------------------
(* C11 *)

NonIncreasingScores(lst) ==
    \A i \in 1..Len(lst) : \A j \in i..Len(lst) : lst[i].score >= lst[j].score

\* C11: in every hit list a provider returns (search_guidelines, search_drugs
\* in its full-text and in its substring mode; stated for a query that is
\* not blank), a hit returned earlier never has a lower score than a hit
\* returned later.
C11_ProviderScoresFollowRanking ==
    /\ Returned("search_guidelines") => NonIncreasingScores(guideline_hits)
    /\ (Returned("search_drugs") /\ ~Blank(query)) => NonIncreasingScores(drug_hits)

----------------------------------------------------------------------------
(* C12 *)

\* C12: a fusion entry point called with an invalid parameter (alpha outside
\* [0, 1], k <= 0 or topn <= 0) raises, and returns no fused list.
C12_InvalidFusionParametersRejected ==
    /\ (called = "linear_fusion" /\ ~ValidLinearCall) => (pc = "raised" /\ fused = <<>>)
    /\ (called = "rrf_fusion" /\ ~ValidRrfCall) => (pc = "raised" /\ fused = <<>>)

----------------------------------------------------------------------------
(* C13 *)

\* C13: the dict hybrid_search returns holds the query it was given, the
\* guideline list search_guidelines computes from the collection (for
\* k_guideline), the drug list search_drugs computes from the rows its SELECT
\* fetched (for k_drug), and as fused list rrf_fusion(guidelines, drugs,
\* topn=topn) when method is "rrf" and linear_fusion(guidelines, drugs,
\* alpha, topn) when it is "linear"; with "rrf" every alpha gives the same
\* result.
C13_HybridReturnsProvidersAndFusion ==
    Returned("hybrid_search") =>
        /\ Len(result) = 1
        /\ LET r == result[1]
           IN  /\ r.query = query
               /\ r.guidelines = GuidelineHitsOf(ColQuery(collection, n_results))
               /\ \E sel \in DrugSelections(query) : rows = FetchAll(sel, limit)
               /\ r.drugs = DrugHitsOf(rows, query)
               /\ method = "rrf" =>
                     /\ r.fused = rrf_fusion(r.guidelines, r.drugs, DefaultRrfK, topn)
                     /\ \A a \in HybridAlphas :
                           hybrid_search(query, Return(r.guidelines), Return(r.drugs),
                                         "rrf", a, topn).value = result
               /\ method = "linear" =>
                     r.fused = linear_fusion(r.guidelines, r.drugs, alpha, topn)

\* An "rrf" call with alpha = 1.5 on two guideline hits and two drug hits,
\* whose fused list differs from what linear fusion gives.
C13_Witness ==
    /\ Returned("hybrid_search")
    /\ method = "rrf"
    /\ alpha = 150
    /\ topn = 3
    /\ Len(result[1].guidelines) = 2
    /\ Len(result[1].drugs) = 2
    /\ Len(result[1].fused) = 3
    /\ KeysOf(result[1].fused) # KeysOf(linear_fusion(guideline_hits, drug_hits, alpha, topn))

----------------------------------------------------------------------------
(* C14 *)

IsFusion(f) == f \in {"linear_fusion", "rrf_fusion"}

\* C14: when search_guidelines raises (the collection is missing) or
\* search_drugs raises (the SQLite file is missing, or the MATCH expression
\* is rejected), hybrid_search raises: it returns no dict, no fused list is
\* computed and neither fusion is called; and when search_guidelines raises
\* search_drugs is not called.
C14_ProviderExceptionPropagates ==
    /\ (called = "hybrid_search" /\ (~chroma_ok \/ SearchDrugsRaises(query))) =>
          /\ pc = "raised"
          /\ result = <<>>
          /\ fused = <<>>
          /\ \A i \in 1..Len(calls) : ~IsFusion(calls[i])
    /\ (called = "hybrid_search" /\ ~chroma_ok) => calls = <<"search_guidelines">>

\* search_guidelines returned two hits, then search_drugs raised.
C14_Witness ==
    /\ called = "hybrid_search"
    /\ chroma_ok
    /\ ~sqlite_ok
    /\ Len(guideline_hits) = 2
    /\ calls = <<"search_guidelines", "search_drugs">>
    /\ pc = "raised"
    /\ result = <<>>

----------------------------------------------------------------------------
(* C15 *)

\* C15: search_drugs called with an empty or whitespace-only query raises
\* instead of running its SELECT: it fetches no row and returns no hit.
C15_BlankQueryRejected ==
    (called = "search_drugs" /\ Blank(query)) =>
        /\ pc = "raised"
        /\ rows = <<>>
        /\ drug_hits = <<>>

----------------------------------------------------------------------------
(* C16 *)

\* A step inside answer's try raises: the guideline retrieval (collection
\* missing) or the composition (drug_name.strip() of a value without strip).
AnswerStepRaises == ~chroma_ok \/ StripRaises(drug_name)

\* C16: when a step inside answer raises while DEMO is on, answer returns a
\* dict with the keys output, guideline_hits and drug, whose output is the
\* demo text, whose guideline_hits is exactly the one stub hit and whose
\* drug is None; while DEMO is off answer raises and returns nothing.  With
\* DEMO on answer never raises.
C16_DemoFallbackOnException ==
    /\ (called = "answer" /\ AnswerStepRaises /\ DEMO) =>
          /\ pc = "returned"
          /\ Len(answer_result) = 1
          /\ DOMAIN answer_result[1] = {"output", "guideline_hits", "drug"}
          /\ answer_result[1].output # <<>>
          /\ answer_result[1].output[1].key = "hdr_demo"
          /\ Len(answer_result[1].guideline_hits) = 1
          /\ answer_result[1].guideline_hits[1].id = "demo-0001"
          /\ answer_result[1].drug = None
    /\ (called = "answer" /\ AnswerStepRaises /\ ~DEMO) =>
          /\ pc = "raised"
          /\ answer_result = <<>>
    /\ (called = "answer" /\ DEMO) => pc = "returned"

\* The collection holds chunks but cannot be opened, DEMO is on: the stub.
C16_Witness ==
    /\ called = "answer"
    /\ DEMO
    /\ ~chroma_ok
    /\ collection # <<>>
    /\ pc = "returned"
    /\ Len(answer_result[1].guideline_hits) = 1
    /\ answer_result[1].guideline_hits[1].id = "demo-0001"

----------------------------------------------------------------------------
(* C17 *)

\* int(k) where it converts, 4 where it does not.
Converted(x) == IF IntRaises(x) THEN 4 ELSE IntOf(x)

\* C17 as claimed: for every k given to answer, the k passed to
\* search_guidelines is an integer in [1, MAX_K], a k that does not convert
\* being replaced by 4 before the clamping.
C17_PassedKWithinOneToMaxK ==
    called = "answer" =>
        /\ n_results \in 1..MAX_K
        /\ n_results = Max(1, Min(MAX_K, Converted(k_arg)))

\* C17 as amended: the k passed to search_guidelines is the integer
\* max(1, min(MAX_K, k')), k' being int(k), or 4 when k does not convert;
\* it is in [1, MAX_K] whenever MAX_K >= 1, and it is 1 when MAX_K < 1.
C17_PassedKIsClamped ==
    called = "answer" =>
        /\ n_results = Max(1, Min(MAX_K, Converted(k_arg)))
        /\ MAX_K >= 1 => n_results \in 1..MAX_K
        /\ MAX_K < 1 => n_results = 1

\* A k that does not convert, with MAX_K = 2: 4 is clamped to 2.
C17_Witness ==
    /\ called = "answer"
    /\ k_arg = BadArg
    /\ MAX_K = 2
    /\ n_results = 2

----------------------------------------------------------------------------
(* C18 *)

TableOf(lg) == IF lg = "zh" THEN "ZH" ELSE "EN"

\* C18: in every dict the app obtains from answer for a submitted request,
\* every line of the output that has words takes them from the table of
\* the language selected in the UI.
C18_OutputInUiLanguage ==
    (called = "app_submit" /\ answer_result # <<>>) =>
        \A i \in 1..Len(answer_result[1].output) :
            answer_result[1].output[i].table \in {"--", TableOf(ui_lang)}

----------------------------------------------------------------------------
(* C19 *)

Posted(attempt, url) == \E i \in 1..Len(posts) : posts[i] = Post(attempt, url)

\* C19: in every attempt in which POST /api/chat answered 404 or 405,
\* llm_chat posted to /api/generate, and when that reply carried text that
\* is not blank llm_chat returned this text.
C19_FallsBackToGenerate ==
    called = "llm_chat" =>
        \A attempt \in 0..MaxRetries :
            ( /\ Posted(attempt, "/api/chat")
              /\ server[attempt + 1].chat.kind = "http"
              /\ server[attempt + 1].chat.status \in {404, 405} ) =>
                /\ Posted(attempt, "/api/generate")
                /\ GenerateReturns(server[attempt + 1].generate) =>
                      /\ pc = "returned"
                      /\ llm_result = <<server[attempt + 1].generate.content>>

----------------------------------------------------------------------------
(* C20 *)

\* C20: for every retries and every sequence of replies, llm_chat either
\* returns a str that is not empty and not blank, or raises; it never
\* returns None or an empty value.
C20_ReturnsTextOrRaises ==
    called = "llm_chat" =>
        \/ /\ pc = "returned"
           /\ Len(llm_result) = 1
           /\ llm_result[1] # None
           /\ ~Blank(llm_result[1])
        \/ /\ pc = "raised"
           /\ llm_result = <<>>

----------------------------------------------------------------------------
(* C25 *)

\* answer's drug_name is a str with a character that is not a space, so
\* that step 2 calls the structured lookup.
LookupCalled == Truthy(drug_name) /\ drug_name # NotAStr /\ ~Blank(drug_name)

\* C25: when drug_name is not blank and the structured lookup raises while
\* the guideline retrieval succeeds, answer returns, with any DEMO: its
\* guideline_hits are the hits of search_guidelines, its output is the draft
\* built from them (not the demo text), and its drug is None.
C25_LookupFailureIsContained ==
    ( /\ called = "answer"
      /\ chroma_ok
      /\ LookupCalled
      /\ search_drug_structured(Strip(drug_name)).raised ) =>
          /\ pc = "returned"
          /\ Len(answer_result) = 1
          /\ answer_result[1].guideline_hits = GuidelineHitsOf(ColQuery(collection, n_results))
          /\ answer_result[1].output =
                DraftLines(lang, question, drug_name, answer_result[1].guideline_hits)
          /\ answer_result[1].output[1].key = "hdr_draft"
          /\ answer_result[1].drug = None

\* DEMO is off, the collection holds chunks, the drug is "a": the draft
\* with its citations and no drug.
C25_Witness ==
    /\ called = "answer"
    /\ pc = "returned"
    /\ ~DEMO
    /\ chroma_ok
    /\ drug_name = <<"a">>
    /\ answer_result[1].guideline_hits # <<>>
    /\ answer_result[1].output[1].key = "hdr_draft"
    /\ answer_result[1].drug = None

----------------------------------------------------------------------------
(* C21 *)

EncodeEnded == called = "encode_with_backoff" /\ pc \in {"returned", "raised"}

\* The passes of the loop on the device the model was on at the call: all
\* attempts but a CPU fallback's.
FallbackAt(i) == i > 1 /\ attempts[i].device = "cpu" /\ attempts[i - 1].device = "cuda"

\* Every batch size used is >= 1; an attempt that ended as the given kinds
\* of error with a batch size above 1 is followed by one with half of it,
\* at least 1; such an error at batch size 1 is either followed by the CPU
\* fallback (cpu_fallback on, the model on CUDA), which ends the call, or
\* ends the call raised.
BacksOffOn(kinds) ==
    \A i \in 1..Len(attempts) :
        /\ attempts[i].bs >= 1
        /\ (attempts[i].outcome \in kinds /\ attempts[i].bs > 1) =>
              \/ pc = "loop" /\ i = Len(attempts) /\ bs = Max(1, attempts[i].bs \div 2)
              \/ /\ i < Len(attempts)
                 /\ attempts[i + 1].bs = Max(1, attempts[i].bs \div 2)
                 /\ attempts[i + 1].device = attempts[i].device
        /\ (attempts[i].outcome \in kinds /\ attempts[i].bs = 1 /\ ~FallbackAt(i)) =>
              /\ pc \in {"returned", "raised"}
              /\ IF cpu_fallback /\ attempts[i].device = "cuda"
                 THEN i + 1 = Len(attempts) /\ FallbackAt(i + 1) /\ attempts[i + 1].bs = 1
                 ELSE i = Len(attempts) /\ pc = "raised"

\* An attempt that ended as an error of another kind is the last one, and
\* the call ended raised.
RaisedAtOnceUnless(kinds) ==
    \A i \in 1..Len(attempts) :
        attempts[i].outcome \notin (kinds \cup {"ok"}) =>
            i = Len(attempts) /\ pc = "raised"

----------------------------------------------------------------------------
(* C22 *)

\* C22: after any sequence of calls of upsert_row the drugs table holds at
\* most one row per drug_name, and a second call with the row of the call
\* that just returned leaves every row's drug_name and data columns as the
\* first call left them.
C22_UpsertIsIdempotentByName ==
    /\ \A i, j \in 1..Len(drugs_table) :
          drugs_table[i].drug_name = drugs_table[j].drug_name => i = j
    /\ Returned("upsert_row") =>
          /\ ~upsert_row(drugs_table, row[1]).raised
          /\ upsert_row(drugs_table, row[1]).value = drugs_table

\* The second call for "a", written "a " and with another column: still one
\* row, holding the columns of both calls.
C22_Witness ==
    /\ Returned("upsert_row")
    /\ n_upserts = 2
    /\ Len(drugs_table) = 1
    /\ row[1].drug_name = <<"a", " ">>
    /\ drugs_table[1].drug_name = <<"a">>
    /\ drugs_table[1].indications = <<"x">>
    /\ drugs_table[1].source = <<"y">>
    /\ row[1].indications = None

----------------------------------------------------------------------------
(* C23 *)

\* An incoming value that is empty: missing, NaN, "" or only spaces.
EmptyIncoming(v) == IsNa(v) \/ Blank(v)

\* C23: when upsert_row returns for a drug_name that is stored already, a
\* stored column has changed only if the row's value for it is not empty,
\* and a stored value that is not empty is unchanged wherever the row's
\* value is empty.
C23_EmptyIncomingKeepsStored ==
    [][\A i \in 1..Len(drugs_table) : \A c \in Columns :
          ( /\ called' = "upsert_row"
            /\ n_upserts' = n_upserts + 1
            /\ pc' = "returned"
            /\ Strip(row'[1].drug_name) = drugs_table[i].drug_name ) =>
                /\ drugs_table'[i][c] # drugs_table[i][c] => ~EmptyIncoming(row'[1][c])
                /\ (EmptyIncoming(row'[1][c]) /\ drugs_table[i][c] \notin {None, <<>>}) =>
                      drugs_table'[i][c] = drugs_table[i][c]]_vars

----------------------------------------------------------------------------
(* C24 *)

\* The id flush gives the record at position j of its batch.
BatchId(j) == stable_id(batch[j].meta, batch[j].content)

\* Position i of the call w holds the id, the text, the vector and the
\* sanitized meta of the record at position j of the batch.
HoldsRecord(w, i, j) ==
    /\ w.ids[i] = BatchId(j)
    /\ w.documents[i] = batch[j].content
    /\ w.embeddings[i] = Embed(<<batch[j].content>>)[1]
    /\ w.metadatas[i] = sanitize_meta(batch[j].meta)

\* The ids of the calls of the last flush.
IdsWritten == UNION {{writes[n].ids[i] : i \in 1..Len(writes[n].ids)} : n \in 1..Len(writes)}

\* A step in which main calls flush and flush returns.
FlushReturns ==
    /\ pc = "call"
    /\ called' = "main"
    /\ pc' # "raised"
    /\ \/ unread' = unread - 1 /\ Len(BUFFER) + 1 >= current_bs
       \/ unread' = unread /\ unread = 0 /\ BUFFER # <<>>

\* C24: in every write call of flush the ids are pairwise distinct, the
\* four lists have one length, and every position holds the id, document,
\* embedding and metadata of one record of the batch, which is the first
\* record of the batch with that id; a flush that returns adds to total the
\* number of distinct ids it wrote.
C24_BatchesAreDedupedAndAligned ==
    /\ [](\A n \in 1..Len(writes) :
            LET w == writes[n]
            IN  /\ Len(w.documents) = Len(w.ids)
                /\ Len(w.embeddings) = Len(w.ids)
                /\ Len(w.metadatas) = Len(w.ids)
                /\ \A i, j \in 1..Len(w.ids) : w.ids[i] = w.ids[j] => i = j
                /\ \A i \in 1..Len(w.ids) :
                      \E j \in 1..Len(batch) :
                          /\ HoldsRecord(w, i, j)
                          /\ \A earlier \in 1..(j - 1) : BatchId(earlier) # w.ids[i])
    /\ [][FlushReturns => total' = total + Cardinality(IdsWritten')]_vars

\* Two records with one id and different metas in a batch: one upsert of
\* one item, with the meta of the first, and total is 1.
C24_Witness ==
    /\ called = "main"
    /\ pc = "returned"
    /\ Len(batch) = 2
    /\ BatchId(1) = BatchId(2)
    /\ sanitize_meta(batch[1].meta) # sanitize_meta(batch[2].meta)
    /\ Len(writes) = 1
    /\ Len(writes[1].ids) = 1
    /\ writes[1].metadatas[1] = sanitize_meta(batch[1].meta)
    /\ total = 1

----------------------------------------------------------------------------
(* C26 *)

\* C26: no call of col.query by search_guidelines carries a where that is
\* empty; when the first call carried a where and raised the ValueError
\* "Expected where to have exactly one operator", there is exactly one more
\* call, without where; when the first call raised another ValueError, or
\* that one without having carried a where, there is no other call and
\* search_guidelines raises.
C26_WhereGuard ==
    called = "search_guidelines" =>
        /\ Len(query_calls) \in {1, 2}
        /\ \A n \in 1..Len(query_calls) :
              query_calls[n].where # <<>> => Truthy(query_calls[n].where[1])
        /\ (query_calls[1].outcome = "where_error" /\ query_calls[1].where # <<>>) =>
              /\ Len(query_calls) = 2
              /\ query_calls[2].where = <<>>
              /\ pc = (IF query_calls[2].outcome = "ok" THEN "returned" ELSE "raised")
        /\ ( \/ query_calls[1].outcome = "value_error"
             \/ query_calls[1].outcome = "where_error" /\ query_calls[1].where = <<>> ) =>
              /\ Len(query_calls) = 1
              /\ pc = "raised"

\* A where with two keys is rejected, and the retry without it returns the
\* nearest chunk.
C26_Witness ==
    /\ called = "search_guidelines"
    /\ pc = "returned"
    /\ where = <<"source", "year">>
    /\ Len(query_calls) = 2
    /\ query_calls[1] = QueryCall(<<where>>, "where_error")
    /\ query_calls[2] = QueryCall(<<>>, "ok")
    /\ guideline_hits # <<>>

----------------------------------------------------------------------------
(* C27 *)

NoFusedScore(lst) == \A i \in 1..Len(lst) : "fused_score" \notin DOMAIN lst[i]

====
